---- MODULE Spec2Model ----
(***************************************************************************)
(* Detection-processing pipeline of birdnet-go: event tracker, detection   *)
(* aggregator and flusher, action planner, job queue and composite action. *)
(* Time is counted in whole seconds.                                       *)
(***************************************************************************)
EXTENDS Integers, Sequences, FiniteSets, TLC

(***************************************************************************)
(* Bounds of the model.                                                    *)
(***************************************************************************)
\* last value of the event tracker's wall clock
MaxClock == 3
\* settings.Realtime.Interval (seconds) of the explored configurations
GlobalInterval == 2
\* the processor's wall clock is observed every ClockStep seconds, up to MaxTime
ClockStep == 8
MaxTime == 20
\* settings of the explored configurations, confidences in thousandths:
\* BirdNET.Threshold, PrivacyFilter.Confidence, DogBarkFilter.Confidence
GlobalThreshold == 500
PrivacyConfidence == 50
DogConfidence == 100
\* how far a dynamic threshold may differ from the base threshold
DynamicStep == 200
\* capacity of the job queue
QueueCapacity == 2
\* detections approved while the job queue is explored
MaxApprovals == 2
\* length of a composite action's list of sub-actions
MaxActions == 3
\* largest max_retries of the explored retry configurations
MaxRetryLimit == 3
\* calls of AllocateCaptureBufferIfNeeded, and of CaptureBuffer.Write
MaxAllocCalls == 2
MaxWrites == 3
\* the capture layer's wall clock runs from 0 to MaxCBClock seconds
MaxCBClock == 4
\* calls of RegisterConsumer, and of TryPublish*, made on the event bus
MaxRegistrations == 2
MaxPublishes == 2
\* parameters of an ExecuteCommandAction
MaxParams == 2
\* entries of a species configuration's Actions list
MaxActionConfigs == 2
LateTicks == 3

(***************************************************************************)
(* Strings and strings.ToLower.                                            *)
(***************************************************************************)
Absent == "<absent>"

\* species names as callers and configuration files spell them
Names == {"Robin", "robin", "ROBIN", "Wren"}

\* the mutant: the name is used as the caller spelled it
ToLowerVerbatim(s) == s

\* strings.ToLower on the names of the model
ToLower(s) ==
  CASE s = "Robin" -> "robin"
    [] s = "ROBIN" -> "robin"
    [] s = "Wren" -> "wren"
    [] s = "Human vocal" -> "human vocal"
    [] s = "Dog" -> "dog"
    [] OTHER -> s

\* m with key k set to v (Go: m[k] = v)
MapPut(m, k, v) == [x \in (DOMAIN m) \cup {k} |-> IF x = k THEN v ELSE m[x]]

\* m without key k (Go: delete(m, k))
MapDelete(m, k) == [x \in (DOMAIN m) \ {k} |-> m[x]]

EmptyMap == [x \in {} |-> 0]

(***************************************************************************)
(* State.                                                                  *)
(***************************************************************************)
VARIABLES
  \* ---- event tracker (eventtracker.go)
  etClock,          \* time.Now() as the tracker's goroutines read it
  SpeciesConfigs,   \* EventTracker.SpeciesConfigs: lowercased name -> [Interval]
  LastEventTime,    \* per handler (event type): lowercased name -> last event time
  HandlerMutex,     \* per handler: the goroutine holding EventHandler.Mutex
  etReaders,        \* goroutines holding EventTracker.Mutex for reading
  call,             \* per goroutine: the TrackEvent / ResetEvent call in progress
  \* ---- processor (processor.go)
  daClock,            \* time.Now() as the processor's goroutines read it
  Settings,           \* Processor.Settings
  pendingDetections,  \* Processor.pendingDetections: lowercased common name -> PendingDetection
  LastHumanDetection, \* Processor.LastHumanDetection: source -> time
  LastDogDetection,   \* Processor.LastDogDetection: source -> time
  proc,               \* the detection processor goroutine: the item in hand and its detections
  lastStart,          \* per source, the start time of the last item taken from birdnet.ResultsQueue
  burst,              \* history: per pending entry, the hits aggregated into it
  lastFlush,          \* history: per species key, what the flusher did with its last entry
  tracked,            \* the species NewSpeciesTracker.UpdateSpecies was called for
  \* ---- job queue
  queue,              \* JobQueue: the tasks waiting for a worker, oldest first
  dropped,            \* JobQueue statistics: tasks refused because the queue was full
  planner,            \* processApprovedDetection in progress: the detection and its action list
  approvals,          \* detections handed to processApprovedDetection so far
  workers,            \* per worker: the task it executes
  saved,              \* history: the detections whose DatabaseAction has completed
  \* ---- composite action
  composite,          \* CompositeAction.Execute in progress
  \* ---- job retry
  job,                \* one Job of the queue: its action, RetryConfig, attempts and state
  \* ---- capture buffer
  cbClock,            \* wall clock of the capture layer, in seconds
  captureBuffers,     \* source -> CaptureBuffer
  cbMutex,            \* goroutine holding cbMutex, or NoOwner
  sourceRefs,         \* source -> references acquired in the registry
  allocCall,          \* goroutine -> its AllocateCaptureBufferIfNeeded call
  lastWrite,          \* the last Write call: its data, the index before it, its number
  readCall,           \* the ReadSegment call in progress or returned
  \* ---- event bus
  hasActiveConsumers, \* the global atomic flag
  bus,                \* the EventBus: config, running, consumer lists, channels, stats, deduplicator
  busMu,              \* goroutine or worker holding eb.mu, or NoOwner
  busCall,            \* goroutine -> its RegisterConsumer or TryPublish call
  busCalls,           \* RegisterConsumer and TryPublish* calls made so far
  busWorkers,         \* worker id -> what the worker goroutine is doing
  \* ---- command executor (execute.go)
  exHost,             \* the machine: runtime.GOOS
  exCall,             \* the ExecuteContext call: its inputs and how far it is
  exSpawned,          \* the child processes started so far: path, arguments, environment
  \* ---- action planner and threshold lookups (processor.go)
  lookup,             \* the last getActionsForItem / getBaseConfidenceThreshold call and its result
  \* ---- the settings store of the frontend (lib/stores/settings)
  settingsStore,      \* formData: the species config map of the store
  settingsAPI,        \* the species config map the backend holds
  \* ---- the processor's mutexes (pendingMutex, detectionMutex)
  pendingMutex,       \* the goroutine that holds pendingMutex, NoOwner when free
  detectionMutex,     \* writer and readers of the RWMutex detectionMutex
  lockCall            \* where the detection processor and the flusher are in their lock steps

etVars == <<etClock, SpeciesConfigs, LastEventTime, HandlerMutex, etReaders, call>>

daVars == <<daClock, Settings, pendingDetections, LastHumanDetection, LastDogDetection,
            proc, lastStart, burst, lastFlush, tracked>>

jqVars == <<queue, dropped, planner, approvals, workers, saved>>

caVars == <<composite>>

rtVars == <<job>>

cbVars == <<cbClock, captureBuffers, cbMutex, sourceRefs, allocCall, lastWrite, readCall>>

ebVars == <<hasActiveConsumers, bus, busMu, busCall, busCalls, busWorkers>>

exVars == <<exHost, exCall, exSpawned>>

apVars == <<lookup>>

ssVars == <<settingsStore, settingsAPI>>

plVars == <<pendingMutex, detectionMutex, lockCall>>

vars == <<etVars, daVars, jqVars, caVars, rtVars, cbVars, ebVars, exVars, apVars, ssVars, plVars>>

\* what the event tracker's steps leave alone
notET == <<daVars, jqVars, caVars, rtVars, cbVars, ebVars, exVars, apVars, ssVars, plVars>>

\* what the processor's steps leave alone (they enqueue tasks)
notDA == <<etVars, planner, approvals, workers, saved, caVars, rtVars, cbVars, ebVars, exVars, apVars, ssVars, plVars>>

\* what the job queue's steps leave alone
notJQ == <<etVars, daVars, caVars, rtVars, cbVars, ebVars, exVars, apVars, ssVars, plVars>>

\* what the composite action's steps leave alone
notCA == <<etVars, daVars, jqVars, rtVars, cbVars, ebVars, exVars, apVars, ssVars, plVars>>

\* what the retry policy's steps leave alone
notRT == <<etVars, daVars, jqVars, caVars, cbVars, ebVars, exVars, apVars, ssVars, plVars>>

\* what the capture buffer's steps leave alone
notCB == <<etVars, daVars, jqVars, caVars, rtVars, ebVars, exVars, apVars, ssVars, plVars>>

\* what the event bus's steps leave alone
notEB == <<etVars, daVars, jqVars, caVars, rtVars, cbVars, exVars, apVars, ssVars, plVars>>

\* what the command executor's steps leave alone
notEX == <<etVars, daVars, jqVars, caVars, rtVars, cbVars, ebVars, apVars, ssVars, plVars>>

\* what the configuration lookups' steps leave alone
notAP == <<etVars, daVars, jqVars, caVars, rtVars, cbVars, ebVars, exVars, ssVars, plVars>>

\* what the settings store's steps leave alone
notSS == <<etVars, daVars, jqVars, caVars, rtVars, cbVars, ebVars, exVars, apVars, plVars>>

\* what the lock steps of the processor's steps leave alone
notPL == <<etVars, daVars, jqVars, caVars, rtVars, cbVars, ebVars, exVars, apVars, ssVars>>

(***************************************************************************)
(* Event tracker.                                                          *)
(***************************************************************************)
\* EventType constants
DatabaseSave == 0
SSEBroadcast == 5

\* the keys of EventTracker.Handlers that the model keeps
HandlerTypes == {DatabaseSave, SSEBroadcast}

\* an EventType that is no key of EventTracker.Handlers
UnknownEventType == 6

Goroutines == {"g1", "g2"}
NoOwner == "<none>"
Idle == [pc |-> "idle"]

\* settings.Realtime.Species.Config maps given to NewEventTrackerWithConfig
RawSpeciesConfigs ==
  { EmptyMap,
    [x \in {"Robin"} |-> [Interval |-> 3]],
    [x \in {"robin"} |-> [Interval |-> 0]],
    [x \in {"ROBIN"} |-> [Interval |-> 0 - 1]],
    [x \in {"robin"} |-> [Interval |-> 1]] }

\* the species-config map with every key lowercased
initEventTracker(speciesConfigs) ==
  [k \in {ToLower(s) : s \in DOMAIN speciesConfigs} |->
     speciesConfigs[CHOOSE s \in DOMAIN speciesConfigs : ToLower(s) = k]]

\* the mutant: the comparison of time.Since with the timeout is strict
StandardEventBehaviorStrict(lastEventTime, timeout, now) == now - lastEventTime > timeout

\* time.Since(lastEventTime) >= timeout
StandardEventBehavior(lastEventTime, timeout, now) == now - lastEventTime >= timeout

\* the mutant: a configured interval is used whatever its sign
effectiveTimeoutAsConfigured(normalizedSpecies) ==
  IF normalizedSpecies \in DOMAIN SpeciesConfigs
  THEN SpeciesConfigs[normalizedSpecies].Interval
  ELSE GlobalInterval

\* the timeout TrackEvent resolves for a species
effectiveTimeout(normalizedSpecies) ==
  IF normalizedSpecies \in DOMAIN SpeciesConfigs
     /\ SpeciesConfigs[normalizedSpecies].Interval > 0
  THEN SpeciesConfigs[normalizedSpecies].Interval
  ELSE GlobalInterval

\* the mutant: the handler's mutex is taken without waiting for its holder
HandlerLockFreeNoWait(eventType) == TRUE

\* handler.Mutex.Lock() can proceed
HandlerLockFree(eventType) == HandlerMutex[eventType] = NoOwner

\* the processor's state while another component is explored
DAParked ==
  /\ daClock = 0
  /\ Settings = EmptyMap
  /\ pendingDetections = EmptyMap
  /\ LastHumanDetection = EmptyMap
  /\ LastDogDetection = EmptyMap
  /\ proc = Idle
  /\ lastStart = EmptyMap
  /\ burst = EmptyMap
  /\ lastFlush = EmptyMap
  /\ tracked = {}

\* the job queue's state while another component is explored
JQParked ==
  /\ queue = <<>>
  /\ dropped = 0
  /\ planner = Idle
  /\ approvals = 0
  /\ workers = EmptyMap
  /\ saved = {}

\* the composite action's state while another component is explored
CAParked == composite = Idle

\* the retry policy's state while another component is explored
RTParked ==
  job = Idle

\* the capture buffer's state while another component is explored
CBParked ==
  /\ cbClock = 0
  /\ captureBuffers = EmptyMap
  /\ cbMutex = NoOwner
  /\ sourceRefs = EmptyMap
  /\ allocCall = Idle
  /\ lastWrite = Idle
  /\ readCall = Idle

\* the event bus's state while another component is explored
EBParked ==
  /\ hasActiveConsumers = FALSE
  /\ bus = Idle
  /\ busMu = NoOwner
  /\ busCall = Idle
  /\ busCalls = Idle
  /\ busWorkers = Idle

\* the command executor's state while another component is explored
EXParked ==
  /\ exHost = Idle
  /\ exCall = Idle
  /\ exSpawned = Idle

\* the configuration lookups' state while another component is explored
APParked ==
  /\ lookup = Idle

\* the settings store's state while another component is explored
SSParked ==
  /\ settingsStore = [pc |-> "idle"]
  /\ settingsAPI = [pc |-> "idle"]

\* the lock steps of the processor's state while another component is explored
PLParked ==
  /\ pendingMutex = NoOwner
  /\ detectionMutex = [writer |-> NoOwner, readers |-> {}]
  /\ lockCall = [pc |-> "idle"]

InitET ==
  /\ etClock = 0
  /\ \E raw \in RawSpeciesConfigs : SpeciesConfigs = initEventTracker(raw)
  /\ LastEventTime = [t \in HandlerTypes |-> EmptyMap]
  /\ HandlerMutex = [t \in HandlerTypes |-> NoOwner]
  /\ etReaders = {}
  /\ call = [g \in Goroutines |-> Idle]
  /\ DAParked
  /\ JQParked
  /\ CAParked
  /\ PLParked
  /\ SSParked
  /\ APParked
  /\ EXParked
  /\ EBParked
  /\ CBParked
  /\ RTParked

\* the wall clock advances
ETTick ==
  /\ etClock < MaxClock
  /\ etClock' = etClock + 1
  /\ UNCHANGED <<SpeciesConfigs, LastEventTime, HandlerMutex, etReaders, call>>
  /\ UNCHANGED notET

\* TrackEvent entry: normalize the name, et.Mutex.RLock()
TrackEventRLock(g, species, eventType) ==
  /\ call[g].pc = "idle"
  /\ etReaders' = etReaders \cup {g}
  /\ call' = [call EXCEPT ![g] =
       [pc |-> "rlocked", normalizedSpecies |-> ToLower(species), eventType |-> eventType]]
  /\ UNCHANGED <<etClock, SpeciesConfigs, LastEventTime, HandlerMutex>>
  /\ UNCHANGED notET

\* the mutant: the read lock is released by a defer, when the call returns
RUnlockDeferred(readers, g) == readers

\* et.Mutex.RUnlock() by goroutine g
RUnlock(readers, g) == readers \ {g}

\* handler lookup, timeout resolution, et.Mutex.RUnlock()
TrackEventResolve(g) ==
  /\ call[g].pc = "rlocked"
  /\ etReaders' = RUnlock(etReaders, g)
  /\ call' = [call EXCEPT ![g] =
       IF call[g].eventType \in HandlerTypes
       THEN [pc |-> "resolved", normalizedSpecies |-> call[g].normalizedSpecies,
             eventType |-> call[g].eventType,
             timeout |-> effectiveTimeout(call[g].normalizedSpecies)]
       ELSE [pc |-> "idle"]]
  /\ UNCHANGED <<etClock, SpeciesConfigs, LastEventTime, HandlerMutex>>
  /\ UNCHANGED notET

\* handler.Mutex.Lock()
TrackEventLock(g) ==
  /\ call[g].pc = "resolved"
  /\ HandlerLockFree(call[g].eventType)
  /\ HandlerMutex' = [HandlerMutex EXCEPT ![call[g].eventType] = g]
  /\ call' = [call EXCEPT ![g].pc = "locked"]
  /\ UNCHANGED <<etClock, SpeciesConfigs, LastEventTime, etReaders>>
  /\ UNCHANGED notET

\* the mutant: the time is recorded whether the event is allowed or not
RecordsTimeAlways(allow) == TRUE

\* shouldHandleEventLocked: the assignment to h.LastEventTime is inside the if
RecordsTime(allow) == allow

\* shouldHandleEventLocked: the lookup and the behaviour function
TrackEventCheck(g) ==
  /\ call[g].pc = "locked"
  /\ LET m == LastEventTime[call[g].eventType]
         key == ToLower(call[g].normalizedSpecies)
         allow == (key \notin DOMAIN m)
                  \/ StandardEventBehavior(m[key], call[g].timeout, etClock)
     IN call' = [call EXCEPT ![g] =
          [pc |-> IF RecordsTime(allow) THEN "record" ELSE "unlock",
           normalizedSpecies |-> call[g].normalizedSpecies,
           eventType |-> call[g].eventType, allow |-> allow]]
  /\ UNCHANGED <<etClock, SpeciesConfigs, LastEventTime, HandlerMutex, etReaders>>
  /\ UNCHANGED notET

\* shouldHandleEventLocked: h.LastEventTime[normalizedSpecies] = time.Now()
TrackEventRecord(g) ==
  /\ call[g].pc = "record"
  /\ LastEventTime' = [LastEventTime EXCEPT ![call[g].eventType] =
       MapPut(@, ToLower(call[g].normalizedSpecies), etClock)]
  /\ call' = [call EXCEPT ![g].pc = "unlock"]
  /\ UNCHANGED <<etClock, SpeciesConfigs, HandlerMutex, etReaders>>
  /\ UNCHANGED notET

\* handler.Mutex.Unlock(); return allowEvent
TrackEventUnlock(g) ==
  /\ call[g].pc = "unlock"
  /\ HandlerMutex' = [HandlerMutex EXCEPT ![call[g].eventType] =
       IF @ = g THEN NoOwner ELSE @]
  /\ call' = [call EXCEPT ![g] = Idle]
  /\ UNCHANGED <<etClock, SpeciesConfigs, LastEventTime, etReaders>>
  /\ UNCHANGED notET

\* the spellings under which the goroutines of SpecET track one species
TrackedNames == {"Robin", "robin"}

NextET ==
  \/ ETTick
  \/ \E g \in Goroutines, s \in TrackedNames, t \in HandlerTypes : TrackEventRLock(g, s, t)
  \/ \E g \in Goroutines : TrackEventResolve(g)
  \/ \E g \in Goroutines : TrackEventLock(g)
  \/ \E g \in Goroutines : TrackEventCheck(g)
  \/ \E g \in Goroutines : TrackEventRecord(g)
  \/ \E g \in Goroutines : TrackEventUnlock(g)

SpecET == InitET /\ [][NextET]_vars

(***************************************************************************)
(* The event tracker with ResetEvent and with calls for an event type that *)
(* has no handler.                                                         *)
(***************************************************************************)
\* the event types callers pass
CalledEventTypes == HandlerTypes \cup {UnknownEventType}

\* ResetEvent entry: normalize the name, et.Mutex.RLock()
ResetEventRLock(g, species, eventType) ==
  /\ call[g].pc = "idle"
  /\ etReaders' = etReaders \cup {g}
  /\ call' = [call EXCEPT ![g] =
       [pc |-> "reset-rlocked", normalizedSpecies |-> ToLower(species),
        eventType |-> eventType]]
  /\ UNCHANGED <<etClock, SpeciesConfigs, LastEventTime, HandlerMutex>>
  /\ UNCHANGED notET

\* ResetEvent: handler lookup, et.Mutex.RUnlock(); without a handler the
\* call returns
ResetEventResolve(g) ==
  /\ call[g].pc = "reset-rlocked"
  /\ etReaders' = RUnlock(etReaders, g)
  /\ call' = [call EXCEPT ![g] =
       IF call[g].eventType \in HandlerTypes
       THEN [call[g] EXCEPT !.pc = "reset-resolved"]
       ELSE Idle]
  /\ UNCHANGED <<etClock, SpeciesConfigs, LastEventTime, HandlerMutex>>
  /\ UNCHANGED notET

\* EventHandler.ResetEvent: h.Mutex.Lock()
ResetEventLock(g) ==
  /\ call[g].pc = "reset-resolved"
  /\ HandlerLockFree(call[g].eventType)
  /\ HandlerMutex' = [HandlerMutex EXCEPT ![call[g].eventType] = g]
  /\ call' = [call EXCEPT ![g].pc = "reset-locked"]
  /\ UNCHANGED <<etClock, SpeciesConfigs, LastEventTime, etReaders>>
  /\ UNCHANGED notET

\* the mutant: the reset clears the handler's whole map
HandlerResetEventAll(m, species) == EmptyMap

\* EventHandler.ResetEvent on the handler's map
HandlerResetEvent(m, species) == MapDelete(m, ToLower(species))

\* EventHandler.ResetEvent: delete(h.LastEventTime, strings.ToLower(species))
\* and the deferred h.Mutex.Unlock()
ResetEventDelete(g) ==
  /\ call[g].pc = "reset-locked"
  /\ LastEventTime' = [LastEventTime EXCEPT ![call[g].eventType] =
       HandlerResetEvent(@, call[g].normalizedSpecies)]
  /\ HandlerMutex' = [HandlerMutex EXCEPT ![call[g].eventType] =
       IF @ = g THEN NoOwner ELSE @]
  /\ call' = [call EXCEPT ![g] = Idle]
  /\ UNCHANGED <<etClock, SpeciesConfigs, etReaders>>
  /\ UNCHANGED notET

NextER ==
  \/ ETTick
  \/ \E g \in Goroutines, s \in TrackedNames, t \in CalledEventTypes :
       TrackEventRLock(g, s, t)
  \/ \E g \in Goroutines : TrackEventResolve(g)
  \/ \E g \in Goroutines : TrackEventLock(g)
  \/ \E g \in Goroutines : TrackEventCheck(g)
  \/ \E g \in Goroutines : TrackEventRecord(g)
  \/ \E g \in Goroutines : TrackEventUnlock(g)
  \/ \E g \in Goroutines, s \in TrackedNames, t \in CalledEventTypes :
       ResetEventRLock(g, s, t)
  \/ \E g \in Goroutines : ResetEventResolve(g)
  \/ \E g \in Goroutines : ResetEventLock(g)
  \/ \E g \in Goroutines : ResetEventDelete(g)

SpecER == InitET /\ [][NextER]_vars

(***************************************************************************)
(* The event tracker tracking and resetting two species.                   *)
(***************************************************************************)
\* the species of the calls
TwoSpecies == {"Robin", "Wren"}

\* the tracker made without species configuration
InitEI ==
  /\ InitET
  /\ SpeciesConfigs = initEventTracker(EmptyMap)

\* one goroutine tracks events, the other resets them
NextEI ==
  \/ ETTick
  \/ \E s \in TwoSpecies, t \in HandlerTypes : TrackEventRLock("g1", s, t)
  \/ \E g \in Goroutines : TrackEventResolve(g)
  \/ \E g \in Goroutines : TrackEventLock(g)
  \/ \E g \in Goroutines : TrackEventCheck(g)
  \/ \E g \in Goroutines : TrackEventRecord(g)
  \/ \E g \in Goroutines : TrackEventUnlock(g)
  \/ \E s \in TwoSpecies, t \in HandlerTypes : ResetEventRLock("g2", s, t)
  \/ \E g \in Goroutines : ResetEventResolve(g)
  \/ \E g \in Goroutines : ResetEventLock(g)
  \/ \E g \in Goroutines : ResetEventDelete(g)

SpecEI == InitEI /\ [][NextEI]_vars

(***************************************************************************)
(* Claims about the event tracker.                                         *)
(***************************************************************************)
\* goroutine g's call is for handler t and species key k
CallFor(g, t, k) ==
  /\ call[g].pc # "idle"
  /\ call[g].eventType = t
  /\ call[g].normalizedSpecies = k

LastOf(m, t, k) == IF k \in DOMAIN m[t] THEN {m[t][k]} ELSE {}

\* Claim C37: a step of a TrackEvent or ResetEvent call for (s, k) leaves the
\* last-event time of every other species and of every other event kind as it
\* was; the delete of ResetEvent leaves the pair without a recorded time and is
\* a no-op when there was none; a TrackEvent check that finds no recorded time
\* for its pair is accepted.
C37_Independence ==
  [][\A g \in Goroutines :
       call'[g] # call[g] =>
         IF call[g].pc = "idle" THEN LastEventTime' = LastEventTime
         ELSE LET t == call[g].eventType
                  k == call[g].normalizedSpecies
              IN /\ \A u \in HandlerTypes, j \in {ToLower(s) : s \in TwoSpecies} :
                      (u # t \/ j # k)
                        => LastOf(LastEventTime', u, j) = LastOf(LastEventTime, u, j)
                 /\ call[g].pc = "reset-locked"
                      => /\ k \notin DOMAIN LastEventTime'[t]
                         /\ k \notin DOMAIN LastEventTime[t] => LastEventTime' = LastEventTime
                 /\ (call[g].pc = "locked" /\ k \notin DOMAIN LastEventTime[t])
                      => call'[g].allow
    ]_vars

\* C37 witness: a ResetEvent call is about to delete the time of one pair
\* while the other species has a time under the same kind and the same
\* species has one under the other kind
C37_Witness ==
  \E g \in Goroutines :
    /\ call[g].pc = "reset-locked"
    /\ call[g].normalizedSpecies = "robin"
    /\ "robin" \in DOMAIN LastEventTime[call[g].eventType]
    /\ "wren" \in DOMAIN LastEventTime[call[g].eventType]
    /\ \E u \in HandlerTypes \ {call[g].eventType} : "robin" \in DOMAIN LastEventTime[u]

\* C3: under every interleaving of concurrent TrackEvent calls, two successive
\* accepted calls for one (species, kind) record times at least the effective
\* interval apart; two concurrent calls are never both accepted within one
\* interval.
C3_Spacing ==
  [][\A g \in Goroutines :
       (call[g].pc = "record" /\ call'[g].pc = "unlock")
         => LET t == call[g].eventType
                k == call[g].normalizedSpecies
            IN k \in DOMAIN LastEventTime[t]
                 => LastEventTime'[t][k] - LastEventTime[t][k] >= effectiveTimeout(k)
    ]_vars

\* C3 witness: one goroutine records a second accepted event of a pair while
\* another goroutine's call for the same pair waits for the handler's mutex
C3_Witness ==
  \E g \in Goroutines, h \in Goroutines :
    /\ g # h
    /\ call[g].pc = "record"
    /\ call[g].normalizedSpecies \in DOMAIN LastEventTime[call[g].eventType]
    /\ call[h].pc = "resolved"
    /\ CallFor(h, call[g].eventType, call[g].normalizedSpecies)

\* C12: the timeout a TrackEvent call resolves is the species' configured
\* interval when the lowercased species has an entry with interval > 0, and the
\* global default when the entry's interval is negative or zero or there is no
\* entry.
C12_EffectiveInterval ==
  \A g \in Goroutines :
    call[g].pc \in {"resolved", "locked"}
      => LET k == call[g].normalizedSpecies
         IN /\ (k \in DOMAIN SpeciesConfigs /\ SpeciesConfigs[k].Interval > 0)
                 => call[g].timeout = SpeciesConfigs[k].Interval
            /\ (k \in DOMAIN SpeciesConfigs /\ SpeciesConfigs[k].Interval <= 0)
                 => call[g].timeout = GlobalInterval
            /\ k \notin DOMAIN SpeciesConfigs => call[g].timeout = GlobalInterval

\* C12 witness: a call has resolved the global default for a species whose
\* configured interval is zero
C12_Witness ==
  \E g \in Goroutines :
    /\ call[g].pc = "resolved"
    /\ call[g].normalizedSpecies \in DOMAIN SpeciesConfigs
    /\ SpeciesConfigs[call[g].normalizedSpecies].Interval = 0
    /\ call[g].timeout = GlobalInterval

\* the spellings of each species, as a table
Spellings == {{"Robin", "robin", "ROBIN"}, {"Wren"}}

\* two spellings that differ only in letter case
SameSpecies(a, b) == \E S \in Spellings : a \in S /\ b \in S

\* the pairs of distinct spellings of one species
SpellingPairs ==
  {p \in SUBSET Names : Cardinality(p) = 2 /\ \E S \in Spellings : p \subseteq S}

\* a species-config map given at construction with one key respelled yields the
\* tracker's map of the original
ConfigSpellingIrrelevant ==
  \A raw \in RawSpeciesConfigs : \A s \in DOMAIN raw : \A s2 \in Names :
    SameSpecies(s, s2)
      => initEventTracker([x \in {s2} |-> raw[s]]) = initEventTracker(raw)

\* C24: two spellings of a species name that differ only in letter case are
\* interchangeable in the event tracker: a TrackEvent or ResetEvent call under
\* one spelling is the same step, through all its stages with the same results
\* and tracked state, as the call under the other, and a species-config map
\* keyed by one spelling builds the same tracker as the map keyed by the other.
C24_SpellingIrrelevant ==
  /\ []ConfigSpellingIrrelevant
  /\ [][/\ \A g \in Goroutines :
            (call[g].pc = "idle" /\ call'[g] # call[g])
              => \A t \in CalledEventTypes, p \in SpellingPairs :
                   LET s1 == CHOOSE x \in p : TRUE
                       s2 == CHOOSE x \in p : x # s1
                   IN /\ TrackEventRLock(g, s1, t) <=> TrackEventRLock(g, s2, t)
                      /\ ResetEventRLock(g, s1, t) <=> ResetEventRLock(g, s2, t)
         /\ \A h \in HandlerTypes :
              DOMAIN LastEventTime'[h] \subseteq {"robin", "wren"}
      ]_vars

\* C24 witness: under a config keyed "Robin" a call has resolved the configured
\* interval while a last-event time and a reset of the species are in progress
\* under the lowercase key
C24_Witness ==
  \E g \in Goroutines, h \in Goroutines :
    /\ SpeciesConfigs = initEventTracker([x \in {"Robin"} |-> [Interval |-> 3]])
    /\ call[g].pc = "resolved"
    /\ call[g].normalizedSpecies = "robin"
    /\ call[g].timeout = 3
    /\ "robin" \in DOMAIN LastEventTime[call[g].eventType]
    /\ call[h].pc = "reset-resolved"
    /\ call[h].normalizedSpecies = "robin"

\* goroutine g waits for or holds the mutex of a handler
AtHandlerMutex(g) ==
  call[g].pc \in {"resolved", "locked", "record", "unlock", "reset-resolved", "reset-locked"}

\* some goroutine with a call in progress can take its next step
SomeCallProceeds ==
  (\E g \in Goroutines : call[g].pc # "idle")
    => \E g \in Goroutines :
         \/ ENABLED TrackEventResolve(g)
         \/ ENABLED TrackEventLock(g)
         \/ ENABLED TrackEventCheck(g)
         \/ ENABLED TrackEventRecord(g)
         \/ ENABLED TrackEventUnlock(g)
         \/ ENABLED ResetEventResolve(g)
         \/ ENABLED ResetEventLock(g)
         \/ ENABLED ResetEventDelete(g)

\* C30: no goroutine holds the tracker's read lock while it waits for or holds
\* a handler's mutex, a call for an event type without handler returns with
\* the read lock released, and whenever calls are in progress one of them can
\* take a step.
C30_LockOrdering ==
  /\ \A g \in Goroutines : AtHandlerMutex(g) => g \notin etReaders
  /\ \A g \in Goroutines : call[g].pc = "idle" => g \notin etReaders
  /\ \A g \in etReaders : call[g].pc \in {"rlocked", "reset-rlocked"}
  /\ SomeCallProceeds

\* C30 witness: one goroutine holds a handler's mutex in ResetEvent, the other
\* waits for the same mutex in TrackEvent, and neither holds the read lock
C30_Witness ==
  \E g \in Goroutines, h \in Goroutines :
    /\ call[g].pc = "reset-locked"
    /\ call[h].pc = "resolved"
    /\ call[h].eventType = call[g].eventType
    /\ HandlerMutex[call[g].eventType] = g
    /\ etReaders = {}

(***************************************************************************)
(* Processor: results processing, pending detections, flusher              *)
(* (processor.go).  Confidences are in thousandths, times in seconds.      *)
(***************************************************************************)
\* const delay = 15 * time.Second
delay == 15

\* the zero time.Time
ZeroTime == 0 - 1

Sources == {"A", "B"}

\* seconds between the start of an item's audio and its arrival, per source
SourceLag(source) == IF source = "A" THEN 0 ELSE ClockStep

\* the (species, confidence) results the classifier reports
ResultChoices ==
  { [Species |-> "Robin", Confidence |-> 604],
    [Species |-> "Robin", Confidence |-> 900],
    [Species |-> "Human vocal", Confidence |-> 400],
    [Species |-> "Human vocal", Confidence |-> 900],
    [Species |-> "Dog", Confidence |-> 900],
    [Species |-> "Crow", Confidence |-> 900],
    [Species |-> "", Confidence |-> 900] }

\* item.Results of the items the classifier delivers
ResultLists ==
  { <<r>> : r \in ResultChoices }
    \cup { << [Species |-> "Human vocal", Confidence |-> 900],
              [Species |-> "Robin", Confidence |-> 604] >> }

\* strings.Contains(s, "human"), strings.Contains(s, "human "), strings.Contains(s, "dog")
ContainsHuman(s) == s \in {"human vocal"}
ContainsHumanSpace(s) == s \in {"human vocal"}
ContainsDog(s) == s \in {"dog"}

\* Settings.IsSpeciesIncluded: the location-based allowlist
IsSpeciesIncluded(species) == species \notin {"Crow", "Dog"}

\* the configurations explored
SettingsChoices ==
  { [PrivacyFilter |-> TRUE, DogBarkFilter |-> FALSE, DynamicThreshold |-> FALSE,
     Overlap |-> 15, SpeciesConfig |-> EmptyMap,
     Log |-> FALSE, Database |-> TRUE, Birdweather |-> FALSE, MQTT |-> FALSE,
     SSE |-> TRUE, RangeFilterStale |-> FALSE],
    [PrivacyFilter |-> TRUE, DogBarkFilter |-> FALSE, DynamicThreshold |-> TRUE,
     Overlap |-> 15, SpeciesConfig |-> EmptyMap,
     Log |-> TRUE, Database |-> FALSE, Birdweather |-> FALSE, MQTT |-> FALSE,
     SSE |-> FALSE, RangeFilterStale |-> FALSE],
    [PrivacyFilter |-> FALSE, DogBarkFilter |-> TRUE, DynamicThreshold |-> FALSE,
     Overlap |-> 0,
     SpeciesConfig |-> [x \in {"robin"} |->
        [Threshold |-> 700, Interval |-> 0,
         Actions |-> << [Type |-> "ExecuteCommand", Parameters |-> 1,
                         ExecuteDefaults |-> TRUE] >>]],
     Log |-> TRUE, Database |-> FALSE, Birdweather |-> TRUE, MQTT |-> TRUE,
     SSE |-> FALSE, RangeFilterStale |-> TRUE] }

\* the mutant: the note keeps the classifier's confidence unrounded
RoundConfidenceNone(confidence) == confidence

\* math.Round(confidence*100) / 100
RoundConfidence(confidence) == ((confidence + 5) \div 10) * 10

\* NewWithSpeciesInfo: the note of a result that passed the filters
NewWithSpeciesInfo(beginTime, commonName, confidence, source) ==
  [CommonName |-> commonName, Confidence |-> RoundConfidence(confidence),
   BeginTime |-> beginTime, Source |-> source, raw |-> confidence]

\* getBaseConfidenceThreshold
getBaseConfidenceThreshold(speciesLowercase) ==
  IF speciesLowercase \in DOMAIN Settings.SpeciesConfig
  THEN Settings.SpeciesConfig[speciesLowercase].Threshold
  ELSE GlobalThreshold

\* handleDogDetection: the LastDogDetection map after the result
handleDogDetection(lastDog, item, speciesLowercase, result) ==
  IF Settings.DogBarkFilter /\ ContainsDog(speciesLowercase)
     /\ result.Confidence > DogConfidence
  THEN MapPut(lastDog, item.Source, item.StartTime)
  ELSE lastDog

\* handleHumanDetection: the LastHumanDetection map after the result
handleHumanDetection(lastHuman, item, speciesLowercase, result) ==
  IF Settings.PrivacyFilter /\ ContainsHumanSpace(speciesLowercase)
     /\ result.Confidence > PrivacyConfidence
  THEN MapPut(lastHuman, item.Source, item.StartTime)
  ELSE lastHuman

\* the mutant: human results are treated like any other species
IsHumanToDiscardNever(commonName, confidence, baseThreshold) == FALSE

\* processResults: a human result above its base threshold is discarded
IsHumanToDiscard(commonName, confidence, baseThreshold) ==
  ContainsHuman(ToLower(commonName)) /\ confidence > baseThreshold

\* the mutant: processResults leaves the species tracker alone
UpdateSpeciesNever(tracker, species) == tracker

\* tracker.UpdateSpecies(scientificName, item.StartTime): the species the
\* tracker has been updated with
UpdateSpecies(tracker, species) == tracker \cup {species}

\* processResults, one result: does it become a detection
PassesFilters(result, adjustment) ==
  LET speciesLowercase == ToLower(result.Species)
      baseThreshold == getBaseConfidenceThreshold(speciesLowercase)
      confidenceThreshold ==
        IF Settings.DynamicThreshold THEN baseThreshold + adjustment ELSE baseThreshold
  IN /\ result.Species # ""
     /\ ~IsHumanToDiscard(result.Species, result.Confidence, baseThreshold)
     /\ result.Confidence > confidenceThreshold
     /\ IsSpeciesIncluded(result.Species)

\* processResults: the loop over item.Results from index i on; acc carries the
\* two side-channel maps and the detections found so far
RECURSIVE processResultsFrom(_, _, _, _)
processResultsFrom(item, i, adjustment, acc) ==
  IF i > Len(item.Results) THEN acc
  ELSE LET result == item.Results[i]
           speciesLowercase == ToLower(result.Species)
           next ==
             IF result.Species = "" THEN acc
             ELSE [dog |-> handleDogDetection(acc.dog, item, speciesLowercase, result),
                   human |-> handleHumanDetection(acc.human, item, speciesLowercase, result),
                   detections |->
                     IF PassesFilters(result, adjustment)
                     THEN Append(acc.detections,
                                 NewWithSpeciesInfo(item.StartTime, result.Species,
                                                    result.Confidence, item.Source))
                     ELSE acc.detections,
                   tracked |->
                     IF PassesFilters(result, adjustment)
                     THEN UpdateSpecies(acc.tracked, result.Species)
                     ELSE acc.tracked]
       IN processResultsFrom(item, i + 1, adjustment, next)

\* processResults(item)
processResults(item, adjustment) ==
  processResultsFrom(item, 1, adjustment,
    [dog |-> LastDogDetection, human |-> LastHumanDetection, detections |-> <<>>,
     tracked |-> tracked])

\* getDefaultActions: the default actions, in the order they are appended
getDefaultActions ==
  (IF Settings.Log THEN <<"LogAction">> ELSE <<>>)
    \o (IF Settings.Database THEN <<"DatabaseAction">> ELSE <<>>)
    \o (IF Settings.Birdweather THEN <<"BirdWeatherAction">> ELSE <<>>)
    \o (IF Settings.MQTT THEN <<"MqttAction">> ELSE <<>>)
    \o (IF Settings.SSE THEN <<"SSEAction">> ELSE <<>>)
    \o (IF Settings.RangeFilterStale THEN <<"UpdateRangeFilterAction">> ELSE <<>>)

\* getActionsForItem: the custom actions of a species configuration
RECURSIVE customActionsFrom(_, _)
customActionsFrom(actionConfigs, i) ==
  IF i > Len(actionConfigs) THEN <<>>
  ELSE (IF actionConfigs[i].Type = "ExecuteCommand" /\ actionConfigs[i].Parameters > 0
        THEN <<"ExecuteCommandAction">> ELSE <<>>)
         \o customActionsFrom(actionConfigs, i + 1)

\* getActionsForItem
getActionsForItem(detection) ==
  LET speciesName == ToLower(detection.CommonName)
  IN IF speciesName \in DOMAIN Settings.SpeciesConfig
     THEN LET speciesConfig == Settings.SpeciesConfig[speciesName]
              actions == customActionsFrom(speciesConfig.Actions, 1)
              executeDefaults ==
                \E i \in DOMAIN speciesConfig.Actions : speciesConfig.Actions[i].ExecuteDefaults
          IN IF Len(actions) > 0 /\ ~executeDefaults THEN actions
             ELSE IF Len(actions) > 0 /\ executeDefaults THEN actions \o getDefaultActions
             ELSE getDefaultActions
     ELSE getDefaultActions

\* the mutant: a full queue makes room by evicting its oldest task
EnqueueTaskEvictOldest(jq, task) ==
  IF Len(jq.queue) >= QueueCapacity
  THEN [queue |-> Append(Tail(jq.queue), task), dropped |-> jq.dropped + 1]
  ELSE [queue |-> Append(jq.queue, task), dropped |-> jq.dropped]

\* EnqueueTask: non-blocking; a full queue refuses the task ("worker queue is full")
EnqueueTask(jq, task) ==
  IF Len(jq.queue) >= QueueCapacity
  THEN [queue |-> jq.queue, dropped |-> jq.dropped + 1]
  ELSE [queue |-> Append(jq.queue, task), dropped |-> jq.dropped]

\* the mutant: the loop over actionList ends at the first refused task
RECURSIVE enqueueActionsUntilRefused(_, _, _, _)
enqueueActionsUntilRefused(jq, detection, actionList, i) ==
  IF i > Len(actionList) THEN jq
  ELSE LET next == EnqueueTask(jq, [Type |-> "TaskTypeAction", Detection |-> detection,
                                    Action |-> actionList[i]])
       IN IF next.dropped > jq.dropped THEN next
          ELSE enqueueActionsUntilRefused(next, detection, actionList, i + 1)

\* processApprovedDetection: the loop over actionList from index i on
RECURSIVE enqueueActionsFrom(_, _, _, _)
enqueueActionsFrom(jq, detection, actionList, i) ==
  IF i > Len(actionList) THEN jq
  ELSE enqueueActionsFrom(
         EnqueueTask(jq, [Type |-> "TaskTypeAction", Detection |-> detection,
                          Action |-> actionList[i]]),
         detection, actionList, i + 1)

\* the mutant: the note keeps the begin time of the best-confidence hit
processApprovedDetectionBestHit(jq, item) ==
  enqueueActionsFrom(jq, item.Detection, getActionsForItem(item.Detection), 1)

\* processApprovedDetection: the job queue after the detection's tasks are enqueued
processApprovedDetection(jq, item) ==
  LET detection == [item.Detection EXCEPT !.BeginTime = item.FirstDetected]
  IN enqueueActionsFrom(jq, detection, getActionsForItem(detection), 1)

\* CheckDogBarkFilter: a dog bark is remembered for the source
CheckDogBarkFilter(species, lastDogDetection) == lastDogDetection # ZeroTime

\* the mutant: the minimum count is not checked
FalsePositiveNever(item, minDetections) == FALSE

\* shouldDiscardDetection: the minimum detection count
FalsePositive(item, minDetections) == item.Count < minDetections

\* shouldDiscardDetection: the privacy filter
PrivacyMatch(item) ==
  /\ Settings.PrivacyFilter
  /\ item.Source \in DOMAIN LastHumanDetection
  /\ LastHumanDetection[item.Source] > item.FirstDetected

\* shouldDiscardDetection: the reason to discard, "" to approve
shouldDiscardDetection(item, minDetections) ==
  IF FalsePositive(item, minDetections) THEN "false positive"
  ELSE IF PrivacyMatch(item) THEN "privacy filter"
  ELSE IF Settings.DogBarkFilter
          /\ CheckDogBarkFilter(item.Detection.CommonName,
                                IF item.Source \in DOMAIN LastDogDetection
                                THEN LastDogDetection[item.Source] ELSE ZeroTime)
       THEN "recent dog bark"
  ELSE ""

\* pendingDetectionsFlusher: segmentLength (tenths of a second) and minDetections
segmentLength == IF 30 - Settings.Overlap > 1 THEN 30 - Settings.Overlap ELSE 1
minDetections == IF 30 \div segmentLength > 1 THEN 30 \div segmentLength ELSE 1

\* the mutant: the flusher lets an entry wait a second delay
DeadlinePassedLate(now, item) == now > item.FlushDeadline + delay

\* pendingDetectionsFlusher: now.After(item.FlushDeadline)
DeadlinePassed(now, item) == now > item.FlushDeadline

\* pendingDetectionsFlusher: one tick's loop over the map, in the order keys;
\* st carries the map, the job queue and the history
RECURSIVE flushFrom(_, _, _, _)
flushFrom(keys, i, now, st) ==
  IF i > Len(keys) THEN st
  ELSE LET species == keys[i]
           item == st.pending[species]
           reason == shouldDiscardDetection(item, minDetections)
           jq == IF reason = "" THEN processApprovedDetection(st.jq, item) ELSE st.jq
           next ==
             IF DeadlinePassed(now, item)
             THEN [pending |-> MapDelete(st.pending, species),
                   jq |-> jq,
                   burst |-> MapDelete(st.burst, species),
                   lastFlush |-> MapPut(st.lastFlush, species,
                     [outcome |-> IF reason = "" THEN "approved" ELSE reason,
                      BeginTime |-> item.FirstDetected,
                      Confidence |-> item.Detection.Confidence,
                      Count |-> item.Count,
                      Source |-> item.Source,
                      tasks |-> Len(jq.queue) - Len(st.jq.queue),
                      refused |-> jq.dropped - st.jq.dropped,
                      hits |-> st.burst[species]])]
             ELSE st
       IN flushFrom(keys, i + 1, now, next)

\* the orders in which a range over a map with key set S may visit the keys
RECURSIVE Orders(_)
Orders(S) ==
  IF S = {} THEN {<<>>}
  ELSE UNION { { <<x>> \o o : o \in Orders(S \ {x}) } : x \in S }

\* the event tracker's state while another component is explored
ETParked ==
  /\ etClock = 0
  /\ SpeciesConfigs = EmptyMap
  /\ LastEventTime = EmptyMap
  /\ HandlerMutex = EmptyMap
  /\ etReaders = {}
  /\ call = EmptyMap

\* the larger and the smaller of two numbers
Max(a, b) == IF a >= b THEN a ELSE b
Min(a, b) == IF a <= b THEN a ELSE b

\* thresholds a dynamic threshold may stand at, relative to the base threshold
Adjustments ==
  IF Settings.DynamicThreshold THEN {0 - DynamicStep, 0, DynamicStep} ELSE {0}

\* history: the sources on which a human above the privacy confidence is heard
\* by item, added to every pending entry first detected before the item's start
NoteHuman(item) ==
  LET heard == \E i \in DOMAIN item.Results :
                 /\ ContainsHumanSpace(ToLower(item.Results[i].Species))
                 /\ item.Results[i].Confidence > PrivacyConfidence
  IN [k \in DOMAIN burst |->
        IF heard /\ item.StartTime > pendingDetections[k].FirstDetected
        THEN [burst[k] EXCEPT !.humanAfter = @ \cup {item.Source}]
        ELSE burst[k]]

InitDA ==
  /\ daClock = 0
  /\ Settings \in SettingsChoices
  /\ pendingDetections = EmptyMap
  /\ LastHumanDetection = EmptyMap
  /\ LastDogDetection = EmptyMap
  /\ proc = Idle
  /\ lastStart = EmptyMap
  /\ burst = EmptyMap
  /\ lastFlush = EmptyMap
  /\ tracked = {}
  /\ JQParked
  /\ CAParked
  /\ PLParked
  /\ SSParked
  /\ APParked
  /\ EXParked
  /\ EBParked
  /\ CBParked
  /\ RTParked
  /\ ETParked

\* the wall clock advances
DATick ==
  /\ daClock + ClockStep <= MaxTime
  /\ daClock' = daClock + ClockStep
  /\ UNCHANGED <<Settings, pendingDetections, LastHumanDetection, LastDogDetection,
                 proc, lastStart, burst, lastFlush, tracked>>
  /\ UNCHANGED <<jqVars, notDA>>

\* startDetectionProcessor takes an item from birdnet.ResultsQueue;
\* processDetections calls processResults(item)
ReceiveItem(source, results, adjustment) ==
  /\ proc.pc = "idle"
  /\ daClock >= SourceLag(source)
  /\ source \in DOMAIN lastStart => lastStart[source] < daClock - SourceLag(source)
  /\ LET item == [Source |-> source, StartTime |-> daClock - SourceLag(source),
                  Results |-> results]
         acc == processResults(item, adjustment)
     IN /\ LastDogDetection' = acc.dog
        /\ LastHumanDetection' = acc.human
        /\ proc' = IF acc.detections = <<>> THEN Idle
                    ELSE [pc |-> "aggregate", item |-> item,
                          detectionResults |-> acc.detections]
        /\ burst' = NoteHuman(item)
        /\ tracked' = acc.tracked
  /\ lastStart' = MapPut(lastStart, source, daClock - SourceLag(source))
  /\ UNCHANGED <<daClock, Settings, pendingDetections, lastFlush>>
  /\ UNCHANGED <<jqVars, notDA>>

\* processDetections: one turn of the loop, under pendingMutex; after the last
\* turn the processor waits for the next item
AggregateDetection ==
  /\ proc.pc = "aggregate"
  /\ proc.detectionResults # <<>>
  /\ LET detection == Head(proc.detectionResults)
         commonName == ToLower(detection.CommonName)
         confidence == detection.Confidence
     IN IF commonName \in DOMAIN pendingDetections
        THEN LET existing == pendingDetections[commonName]
                 updated ==
                   IF confidence > existing.Confidence
                   THEN [existing EXCEPT !.Detection = detection,
                                         !.Confidence = confidence,
                                         !.Source = proc.item.Source,
                                         !.LastUpdated = daClock]
                   ELSE existing
             IN /\ pendingDetections' =
                     MapPut(pendingDetections, commonName,
                            [updated EXCEPT !.Count = @ + 1])
                /\ burst' = [burst EXCEPT ![commonName] =
                     [@ EXCEPT !.n = @ + 1, !.cmax = Max(@, detection.raw),
                               !.tmin = Min(@, proc.item.StartTime),
                               !.tmax = Max(@, proc.item.StartTime)]]
        ELSE /\ pendingDetections' =
                  MapPut(pendingDetections, commonName,
                         [Detection |-> detection,
                          Confidence |-> confidence,
                          Source |-> proc.item.Source,
                          FirstDetected |-> proc.item.StartTime,
                          LastUpdated |-> ZeroTime,
                          FlushDeadline |-> proc.item.StartTime + delay,
                          Count |-> 1])
             /\ burst' = MapPut(burst, commonName,
                  [n |-> 1, cmax |-> detection.raw, t0 |-> proc.item.StartTime,
                   tmin |-> proc.item.StartTime, tmax |-> proc.item.StartTime,
                   firstSource |-> proc.item.Source, humanAfter |-> {}])
  /\ proc' = IF Tail(proc.detectionResults) = <<>> THEN Idle
              ELSE [proc EXCEPT !.detectionResults = Tail(@)]
  /\ UNCHANGED <<daClock, Settings, LastHumanDetection, LastDogDetection, lastStart,
                 lastFlush, tracked>>
  /\ UNCHANGED <<jqVars, notDA>>

\* pendingDetectionsFlusher: one tick of the ticker, under pendingMutex
FlushTick(keys) ==
  /\ LET st == flushFrom(keys, 1, daClock,
                 [pending |-> pendingDetections,
                  jq |-> [queue |-> queue, dropped |-> dropped],
                  burst |-> burst, lastFlush |-> lastFlush])
     IN /\ pendingDetections' = st.pending
        /\ queue' = st.jq.queue
        /\ dropped' = st.jq.dropped
        /\ burst' = st.burst
        /\ lastFlush' = st.lastFlush
  /\ UNCHANGED <<daClock, Settings, LastHumanDetection, LastDogDetection, proc, lastStart,
                 tracked>>
  /\ UNCHANGED notDA

\* the job queue's workers take the oldest task off the queue
DequeueTask ==
  /\ queue # <<>>
  /\ queue' = Tail(queue)
  /\ UNCHANGED <<dropped, daVars, notDA>>

NextDA ==
  \/ DATick
  \/ \E source \in Sources, results \in ResultLists, adjustment \in Adjustments :
       ReceiveItem(source, results, adjustment)
  \/ AggregateDetection
  \/ \E keys \in Orders(DOMAIN pendingDetections) : FlushTick(keys)
  \/ DequeueTask

SpecDA == InitDA /\ [][NextDA]_vars

(***************************************************************************)
(* The aggregator over a longer run, with a third source whose items       *)
(* arrive later than the debounce window after their audio started.        *)
(***************************************************************************)
\* the sources of the longer run: one with the lag of SourceLag, one lagging
\* by more than the debounce window
LateSources == {"B", "C"}

\* the configurations of the longer run: no side-channel filter, the database
\* action only, minDetections 1 (overlap 0) or 2 (overlap 1.5 s)
LateSettings ==
  { [PrivacyFilter |-> FALSE, DogBarkFilter |-> FALSE, DynamicThreshold |-> FALSE,
     Overlap |-> overlap, SpeciesConfig |-> EmptyMap,
     Log |-> FALSE, Database |-> TRUE, Birdweather |-> FALSE, MQTT |-> FALSE,
     SSE |-> FALSE, RangeFilterStale |-> FALSE] : overlap \in {0, 15} }

\* seconds between the start of an item's audio and its arrival, per source
LateSourceLag(source) == IF source = "C" THEN LateTicks * ClockStep ELSE SourceLag(source)

\* the results the classifier reports in the longer run
LateResultLists ==
  { <<[Species |-> "Robin", Confidence |-> 604]>>,
    <<[Species |-> "Robin", Confidence |-> 900]>> }

InitDL ==
  /\ Settings \in LateSettings
  /\ daClock = 0
  /\ pendingDetections = EmptyMap
  /\ LastHumanDetection = EmptyMap
  /\ LastDogDetection = EmptyMap
  /\ proc = Idle
  /\ lastStart = EmptyMap
  /\ burst = EmptyMap
  /\ lastFlush = EmptyMap
  /\ tracked = {}
  /\ JQParked
  /\ ETParked
  /\ CAParked
  /\ RTParked
  /\ CBParked
  /\ EBParked
  /\ EXParked
  /\ APParked
  /\ SSParked
  /\ PLParked

\* the wall clock advances
DLTick ==
  /\ daClock < LateTicks * ClockStep
  /\ daClock' = daClock + ClockStep
  /\ UNCHANGED <<Settings, pendingDetections, LastHumanDetection, LastDogDetection,
                 proc, lastStart, burst, lastFlush, tracked>>
  /\ UNCHANGED <<jqVars, notDA>>

\* startDetectionProcessor takes an item from birdnet.ResultsQueue;
\* processDetections calls processResults(item)
ReceiveLateItem(source, results, adjustment) ==
  /\ proc.pc = "idle"
  /\ daClock >= LateSourceLag(source)
  /\ source \in DOMAIN lastStart => lastStart[source] < daClock - LateSourceLag(source)
  /\ LET item == [Source |-> source, StartTime |-> daClock - LateSourceLag(source),
                  Results |-> results]
         acc == processResults(item, adjustment)
     IN /\ LastDogDetection' = acc.dog
        /\ LastHumanDetection' = acc.human
        /\ proc' = IF acc.detections = <<>> THEN Idle
                    ELSE [pc |-> "aggregate", item |-> item,
                          detectionResults |-> acc.detections]
        /\ burst' = NoteHuman(item)
        /\ tracked' = acc.tracked
  /\ lastStart' = MapPut(lastStart, source, daClock - LateSourceLag(source))
  /\ UNCHANGED <<daClock, Settings, pendingDetections, lastFlush>>
  /\ UNCHANGED <<jqVars, notDA>>

NextDL ==
  \/ DLTick
  \/ \E source \in LateSources, results \in LateResultLists, adjustment \in Adjustments :
       ReceiveLateItem(source, results, adjustment)
  \/ AggregateDetection
  \/ \E keys \in Orders(DOMAIN pendingDetections) : FlushTick(keys)
  \/ DequeueTask

SpecDL == InitDL /\ [][NextDL]_vars

\* the ticker of the flusher keeps firing and time keeps passing
SpecDLFair ==
  /\ SpecDL
  /\ WF_vars(DLTick)
  /\ WF_vars(\E keys \in Orders(DOMAIN pendingDetections) : FlushTick(keys))

(***************************************************************************)
(* Claims about the processor                                              *)
(***************************************************************************)
\* a flush step: the flusher removes at least one entry from the map
FlushStep ==
  /\ proc' = proc
  /\ daClock' = daClock
  /\ pendingDetections' # pendingDetections

\* the tasks a step appends to the job queue
NewTasks ==
  IF Len(queue') > Len(queue) THEN SubSeq(queue', Len(queue) + 1, Len(queue')) ELSE <<>>

\* C1 as stated: a burst of n hits of one species with start times in
\* [t0, t0 + 15 s), maximum confidence c*, n >= min_detections and no privacy or
\* dog-bark filter firing, is emitted as exactly one confirmed detection with
\* begin_time = t0, confidence = c* and count = n; no hit of the burst is left
\* for another entry.
C1_Debounce ==
  \A k \in DOMAIN lastFlush :
    LET f == lastFlush[k]
        h == f.hits
    IN (/\ h.tmax < h.tmin + delay
        /\ h.n >= minDetections
        /\ f.outcome \notin {"privacy filter", "recent dog bark"})
         => /\ f.outcome = "approved"
            /\ f.BeginTime = h.tmin
            /\ f.Confidence = h.cmax
            /\ f.Count = h.n
            /\ k \in DOMAIN pendingDetections
                 => ~(/\ pendingDetections[k].FirstDetected >= h.tmin
                      /\ pendingDetections[k].FirstDetected < h.tmin + delay)

\* C1 amended: the hits of one species aggregated into a pending entry, from
\* the hit that creates it (start time t0) to the first flusher tick after
\* t0 + 15 s, n of them with maximum confidence c*, are emitted exactly when
\* n >= min_detections and no privacy or dog-bark filter fires, as one
\* detection with begin_time = t0, confidence = c* rounded to two decimals and
\* count = n.
C1_DebounceAmended ==
  \A k \in DOMAIN lastFlush :
    LET f == lastFlush[k]
        h == f.hits
    IN /\ (h.n >= minDetections /\ f.outcome \notin {"privacy filter", "recent dog bark"})
            <=> f.outcome = "approved"
       /\ f.outcome = "approved"
            => /\ f.BeginTime = h.t0
               /\ f.Confidence = ((h.cmax + 5) \div 10) * 10
               /\ f.Count = h.n
               /\ f.tasks + f.refused >= 1
       /\ f.outcome # "approved" => f.tasks + f.refused = 0

\* C1 witness: a burst of two hits is emitted with a confidence that rounding changed
C1_Witness ==
  \E k \in DOMAIN lastFlush :
    /\ lastFlush[k].outcome = "approved"
    /\ lastFlush[k].hits.n >= 2
    /\ lastFlush[k].hits.n >= minDetections
    /\ lastFlush[k].Confidence # lastFlush[k].hits.cmax

\* C8 as stated: with the privacy filter enabled, a bird detection first
\* detected on a source on which a human above the privacy confidence is then
\* heard, at a start time after first_detected and while the detection is
\* pending, is discarded at flush, whatever the order in which results of
\* different sources and confidences arrive.
C8_PrivacyGate ==
  \A k \in DOMAIN lastFlush :
    (/\ Settings.PrivacyFilter
     /\ ~ContainsHuman(k)
     /\ lastFlush[k].hits.firstSource \in lastFlush[k].hits.humanAfter)
      => /\ lastFlush[k].outcome # "approved"
         /\ lastFlush[k].tasks = 0

\* C9: a flush of a pending detection with count < min_detections enqueues no
\* task for it and removes it from the pending map.
C9_FalsePositiveDiscard ==
  [][\A k \in DOMAIN pendingDetections :
       (/\ FlushStep
        /\ daClock > pendingDetections[k].FlushDeadline
        /\ pendingDetections[k].Count < minDetections)
         => /\ k \notin DOMAIN pendingDetections'
            /\ \A i \in DOMAIN NewTasks : ToLower(NewTasks[i].Detection.CommonName) # k
            /\ lastFlush'[k].tasks = 0
            /\ lastFlush'[k].refused = 0
    ]_vars

\* C9 witness: an entry with fewer hits than min_detections has been flushed
C9_Witness ==
  \E k \in DOMAIN lastFlush :
    /\ lastFlush[k].outcome = "false positive"
    /\ lastFlush[k].Count < minDetections
    /\ k \notin DOMAIN pendingDetections

\* a note of a human whose classifier confidence exceeds the base threshold
HumanAboveBase(note) ==
  /\ ContainsHuman(ToLower(note.CommonName))
  /\ note.raw > getBaseConfidenceThreshold(ToLower(note.CommonName))

\* C10: no result whose name contains "human" and whose confidence exceeds
\* the species' base threshold becomes a detection, creates or updates a
\* pending detection, or has an action task enqueued, with dynamic thresholds
\* enabled or not.
C10_HumansDiscarded ==
  /\ proc.pc = "aggregate"
       => \A i \in DOMAIN proc.detectionResults : ~HumanAboveBase(proc.detectionResults[i])
  /\ \A k \in DOMAIN pendingDetections :
       /\ ~HumanAboveBase(pendingDetections[k].Detection)
       /\ ContainsHuman(k) => burst[k].cmax <= getBaseConfidenceThreshold(k)
  /\ \A i \in DOMAIN queue : ~HumanAboveBase(queue[i].Detection)

\* C10 witness: with dynamic thresholds enabled, the processor holds the
\* detections of an item whose results include a human above the base threshold
C10_Witness ==
  /\ Settings.DynamicThreshold
  /\ proc.pc = "aggregate"
  /\ \E i \in DOMAIN proc.item.Results :
       /\ ContainsHuman(ToLower(proc.item.Results[i].Species))
       /\ proc.item.Results[i].Confidence
            > getBaseConfidenceThreshold(ToLower(proc.item.Results[i].Species))

\* C11 as stated: every entry of the pending-detections map has
\* first_detected <= last_updated <= flush_deadline, flush_deadline =
\* first_detected + 15 s, count >= 1, and the confidence, detection and source
\* of the best hit aggregated into it so far.
C11_PendingInvariant ==
  \A k \in DOMAIN pendingDetections :
    LET e == pendingDetections[k]
    IN /\ e.FirstDetected <= e.LastUpdated
       /\ e.LastUpdated <= e.FlushDeadline
       /\ e.FlushDeadline = e.FirstDetected + delay
       /\ e.Count >= 1
       /\ e.Confidence = ((burst[k].cmax + 5) \div 10) * 10
       /\ e.Detection.Confidence = e.Confidence
       /\ e.Detection.Source = e.Source

(***************************************************************************)
(* Job queue and worker pool: processApprovedDetection enqueues one task   *)
(* per planned action, workers execute them.                               *)
(***************************************************************************)
Workers == {"w1", "w2"}

\* the pending detections the flusher approves in this exploration
ApprovedItem(commonName, firstDetected) ==
  [Detection |-> NewWithSpeciesInfo(firstDetected, commonName, 900, "A"),
   Confidence |-> 900,
   Source |-> "A",
   FirstDetected |-> firstDetected,
   LastUpdated |-> ZeroTime,
   FlushDeadline |-> firstDetected + delay,
   Count |-> 2]

\* the other processor state while the job queue is explored
DAQuiet ==
  /\ daClock = 0
  /\ pendingDetections = EmptyMap
  /\ LastHumanDetection = EmptyMap
  /\ LastDogDetection = EmptyMap
  /\ proc = Idle
  /\ lastStart = EmptyMap
  /\ burst = EmptyMap
  /\ lastFlush = EmptyMap
  /\ tracked = {}

InitJQ ==
  /\ Settings \in SettingsChoices
  /\ DAQuiet
  /\ queue = <<>>
  /\ dropped = 0
  /\ planner = Idle
  /\ approvals = 0
  /\ workers = [w \in Workers |-> Idle]
  /\ saved = {}
  /\ CAParked
  /\ PLParked
  /\ SSParked
  /\ APParked
  /\ EXParked
  /\ EBParked
  /\ CBParked
  /\ RTParked
  /\ ETParked

\* processApprovedDetection(item): the detection takes the entry's first-detected
\* time and its action list is planned
ApproveDetection(commonName) ==
  /\ planner.pc = "idle"
  /\ approvals < MaxApprovals
  /\ LET item == ApprovedItem(commonName, approvals * ClockStep)
         detection == [item.Detection EXCEPT !.BeginTime = item.FirstDetected]
         actionList == getActionsForItem(detection)
     IN planner' = IF actionList = <<>> THEN Idle
                   ELSE [pc |-> "enqueue", detection |-> detection,
                         actionList |-> actionList, i |-> 1]
  /\ approvals' = approvals + 1
  /\ UNCHANGED <<queue, dropped, workers, saved>>
  /\ UNCHANGED notJQ

\* processApprovedDetection: one turn of the loop over the action list; a
\* refused task is logged and the loop goes on
EnqueueNextTask ==
  /\ planner.pc = "enqueue"
  /\ LET task == [Type |-> "TaskTypeAction", Detection |-> planner.detection,
                  Action |-> planner.actionList[planner.i]]
         jq == EnqueueTask([queue |-> queue, dropped |-> dropped], task)
     IN /\ queue' = jq.queue
        /\ dropped' = jq.dropped
  /\ planner' = IF planner.i = Len(planner.actionList) THEN Idle
                ELSE [planner EXCEPT !.i = @ + 1]
  /\ UNCHANGED <<approvals, workers, saved>>
  /\ UNCHANGED notJQ

\* a worker pops the oldest task and starts to execute its action
WorkerTake(w) ==
  /\ workers[w].pc = "idle"
  /\ queue # <<>>
  /\ workers' = [workers EXCEPT ![w] = [pc |-> "running", task |-> Head(queue)]]
  /\ queue' = Tail(queue)
  /\ UNCHANGED <<dropped, planner, approvals, saved>>
  /\ UNCHANGED notJQ

\* the action a worker executes returns; a DatabaseAction has saved its note
WorkerFinish(w) ==
  /\ workers[w].pc = "running"
  /\ saved' = IF workers[w].task.Action = "DatabaseAction"
              THEN saved \cup {workers[w].task.Detection}
              ELSE saved
  /\ workers' = [workers EXCEPT ![w] = Idle]
  /\ UNCHANGED <<queue, dropped, planner, approvals>>
  /\ UNCHANGED notJQ

NextJQ ==
  \/ \E commonName \in {"Robin", "Wren"} : ApproveDetection(commonName)
  \/ EnqueueNextTask
  \/ \E w \in Workers : WorkerTake(w)
  \/ \E w \in Workers : WorkerFinish(w)

SpecJQ == InitJQ /\ [][NextJQ]_vars

\* C6 as stated: whenever a worker starts the broadcast (SSE) action of a
\* detection, with the database and the SSE broadcaster both enabled, the save
\* of that detection has completed.
C6_PersistBeforeBroadcast ==
  \A w \in Workers :
    (/\ Settings.Database
     /\ Settings.SSE
     /\ workers[w].pc = "running"
     /\ workers[w].task.Action = "SSEAction")
      => workers[w].task.Detection \in saved

\* C7: the job queue never holds more than QueueCapacity tasks; an enqueue on a
\* full queue leaves the queued tasks as they are and counts one more drop, any
\* other enqueue appends the task and counts none.
C7_QueueBound ==
  [][/\ Len(queue') <= QueueCapacity
     /\ (planner.pc = "enqueue" /\ planner' # planner)
          => IF Len(queue) >= QueueCapacity
             THEN queue' = queue /\ dropped' = dropped + 1
             ELSE /\ queue' = Append(queue,
                                [Type |-> "TaskTypeAction",
                                 Detection |-> planner.detection,
                                 Action |-> planner.actionList[planner.i]])
                  /\ dropped' = dropped
    ]_vars

\* C7 witness: a task has been refused by a full queue whose workers are busy
C7_Witness ==
  /\ Len(queue) = QueueCapacity
  /\ dropped > 0
  /\ \A w \in Workers : workers[w].pc = "running"

\* C28: a further hit for a species already in the pending map increments the
\* count by exactly 1, replaces the stored detection, source and confidence
\* only if its confidence is strictly greater than the stored one, sets
\* LastUpdated to the current time whether or not the confidence is higher,
\* and leaves FirstDetected and FlushDeadline unchanged.
C28_PendingUpdate ==
  [][(AggregateDetection
      /\ ToLower(Head(proc.detectionResults).CommonName) \in DOMAIN pendingDetections)
       => LET detection == Head(proc.detectionResults)
              commonName == ToLower(detection.CommonName)
              old == pendingDetections[commonName]
              new == pendingDetections'[commonName]
          IN /\ new.Count = old.Count + 1
             /\ detection.Confidence > old.Confidence
                  => /\ new.Detection = detection
                     /\ new.Source = proc.item.Source
                     /\ new.Confidence = detection.Confidence
             /\ detection.Confidence <= old.Confidence
                  => /\ new.Detection = old.Detection
                     /\ new.Source = old.Source
                     /\ new.Confidence = old.Confidence
             /\ new.LastUpdated = daClock
             /\ new.FirstDetected = old.FirstDetected
             /\ new.FlushDeadline = old.FlushDeadline
    ]_vars

\* the flusher emits species k in this step: its entry leaves the map approved
Emits(k) ==
  /\ k \in DOMAIN pendingDetections
  /\ k \notin DOMAIN pendingDetections'
  /\ lastFlush'[k].outcome = "approved"

\* the emission of k in this step carries the first-detected time of the entry
\* and comes after the species' emission before it in first-detected order
EmittedInOrder(k) ==
  /\ \A i \in DOMAIN NewTasks :
       NewTasks[i].Detection.BeginTime = pendingDetections[k].FirstDetected
  /\ lastFlush'[k].BeginTime = pendingDetections[k].FirstDetected
  /\ (k \in DOMAIN lastFlush /\ lastFlush[k].outcome = "approved")
       => lastFlush'[k].BeginTime > lastFlush[k].BeginTime

\* C31 as stated: the confirmed detections of one species are emitted in
\* increasing order of first_detected, each with begin_time equal to the
\* first_detected of its pending entry.
C31_EmissionOrder ==
  [][\A k \in DOMAIN pendingDetections : Emits(k) => EmittedInOrder(k)]_vars

\* C31 amended: the same, as long as every item has reached the processor no
\* later than the debounce window after the start of its audio.
C31_EmissionOrderAmended ==
  [][(\A source \in DOMAIN lastStart : LateSourceLag(source) <= delay)
       => \A k \in DOMAIN pendingDetections : Emits(k) => EmittedInOrder(k)]_vars

\* C31 witness: two detections of the robin have been emitted one after the
\* other, the second first detected after the first, the best hit of the
\* second later than its first hit
C31_Witness ==
  /\ "C" \notin DOMAIN lastStart
  /\ Len(queue) = 2
  /\ queue[1].Detection.BeginTime < queue[2].Detection.BeginTime
  /\ queue[1].Detection.CommonName = queue[2].Detection.CommonName
  /\ "robin" \in DOMAIN lastFlush
  /\ lastFlush["robin"].outcome = "approved"
  /\ lastFlush["robin"].BeginTime = queue[2].Detection.BeginTime

\* C32: in a flusher tick that has a task refused by the job queue, every
\* entry past its deadline is removed from the map, and for every detection
\* approved in the tick each of its actions is tried once: the tasks enqueued
\* and the tasks refused add up to its action list, a refused task is counted
\* once and the queue holds what it held plus the tasks that were accepted.
C32_DispatchIsolation ==
  [][dropped' > dropped
       => /\ \A k \in DOMAIN pendingDetections :
               DeadlinePassed(daClock, pendingDetections[k])
                 => /\ k \notin DOMAIN pendingDetections'
                    /\ lastFlush'[k].outcome = "approved"
                         => lastFlush'[k].tasks + lastFlush'[k].refused
                              = Len(getActionsForItem(pendingDetections[k].Detection))
          /\ \A k \in DOMAIN pendingDetections :
               {j \in DOMAIN pendingDetections :
                  /\ DeadlinePassed(daClock, pendingDetections[j])
                  /\ lastFlush'[j].outcome = "approved"} = {k}
                 => Len(queue') - Len(queue) + (dropped' - dropped)
                      = Len(getActionsForItem(pendingDetections[k].Detection))
          /\ SubSeq(queue', 1, Len(queue)) = queue
    ]_vars

\* C32 witness: of a detection's tasks one was enqueued and the others
\* refused, and its entry is gone from the map
C32_Witness ==
  \E k \in DOMAIN lastFlush :
    /\ lastFlush[k].outcome = "approved"
    /\ lastFlush[k].tasks >= 1
    /\ lastFlush[k].refused >= 2
    /\ k \notin DOMAIN pendingDetections
    /\ dropped >= 2

\* Claim C33: the species tracker is updated for a species only in a step that
\* confirms a detection of it at flush, so a species whose pending entry was
\* discarded (false positive, privacy filter, dog bark) and never confirmed is
\* not in the tracker.
C33_TrackedAtConfirmation ==
  [][\A species \in tracked' \ tracked : Emits(ToLower(species))]_vars

\* a raw hit has updated the tracker and its entry was then discarded as a
\* false positive
C33_TrackedThenDiscarded ==
  /\ "Robin" \in tracked
  /\ "robin" \in DOMAIN lastFlush
  /\ lastFlush["robin"].outcome = "false positive"
  /\ "robin" \notin DOMAIN pendingDetections

\* the species keys the long run puts into the pending map
LateKeys == {"robin"}

\* Claim C38: a flusher tick at a time after an entry's flush deadline removes
\* the entry; the deadline of an entry is never moved by later hits; tasks are
\* enqueued only in a step that removes an entry; and, the ticker firing and
\* time passing, every entry whose deadline lies before the end of the run
\* leaves the map.
C38_EventuallyResolved ==
  /\ [][ /\ (\E keys \in Orders(DOMAIN pendingDetections) : FlushTick(keys))
             => \A k \in DOMAIN pendingDetections :
                  daClock > pendingDetections[k].FlushDeadline
                    => /\ k \notin DOMAIN pendingDetections'
                       /\ lastFlush'[k].BeginTime = pendingDetections[k].FirstDetected
         /\ \A k \in DOMAIN pendingDetections \cap DOMAIN pendingDetections' :
              /\ pendingDetections'[k].FlushDeadline = pendingDetections[k].FlushDeadline
              /\ pendingDetections'[k].Count >= pendingDetections[k].Count
         /\ Len(queue') > Len(queue)
              => DOMAIN pendingDetections' # DOMAIN pendingDetections
     ]_vars
  /\ \A k \in LateKeys :
       ( /\ k \in DOMAIN pendingDetections
         /\ pendingDetections[k].FlushDeadline < LateTicks * ClockStep )
       ~> k \notin DOMAIN pendingDetections

\* C38 witness: an entry that kept receiving hits until after its deadline
\* has left the map
C38_Witness ==
  /\ "robin" \in DOMAIN lastFlush
  /\ "robin" \notin DOMAIN pendingDetections
  /\ lastFlush["robin"].Count >= 3
  /\ lastFlush["robin"].hits.tmax > lastFlush["robin"].BeginTime + delay

(***************************************************************************)
(* Composite action: CompositeAction.Execute runs its sub-actions one      *)
(* after another, each under the composite's timeout.                      *)
(***************************************************************************)
\* what a sub-action is or does: a nil entry, or an action that returns nil,
\* returns an error, panics, or does not return within the timeout
ActionKinds == {"nil", "ok", "error", "panic", "hang"}

\* the sequences of length n over ActionKinds
RECURSIVE ActionListsOfLen(_)
ActionListsOfLen(n) ==
  IF n = 0 THEN {<<>>}
  ELSE { Append(l, k) : l \in ActionListsOfLen(n - 1), k \in ActionKinds }

\* the Actions slices explored; the empty one also stands for a nil slice
ActionLists == UNION { ActionListsOfLen(n) : n \in 0..MaxActions }

\* the mutant: only a returned error stops the composite
AbortsOnErrorOnly(outcome) == outcome = "error"

\* Execute: the outcomes of a sub-action that end the composite with an error
AbortsOn(outcome) == outcome \in {"error", "panic", "timed out"}

\* the mutant: the next sub-action starts without waiting for the running one
MayStartOverlapping(c) == c.pc \in {"next", "running"} /\ c.i <= Len(c.Actions)

\* Execute: the loop is at the top of a turn, no sub-action is running
MayStart(c) == c.pc = "next" /\ c.i <= Len(c.Actions)

\* the composite after sub-action c.i ended with outcome
AfterOutcome(c, outcome) ==
  IF AbortsOn(outcome)
  THEN [c EXCEPT !.pc = "done", !.err = outcome]
  ELSE [c EXCEPT !.pc = "next", !.i = @ + 1]

\* the mutant: a nil entry is treated like any other sub-action
IsNilNever(action) == FALSE

\* Execute: action == nil
IsNil(action) == action = "nil"

\* the receivers Execute is called on: a nil *CompositeAction, a composite
\* whose Actions is a nil slice, a composite with a slice; the first two have
\* no entries
Receivers ==
  {[receiver |-> r, Actions |-> <<>>] : r \in {"nil composite", "nil slice"}}
    \cup {[receiver |-> "slice", Actions |-> actions] : actions \in ActionLists}

InitCA ==
  /\ \E r \in Receivers :
       composite = [pc |-> "next", receiver |-> r.receiver, Actions |-> r.Actions,
                    i |-> 1, err |-> "",
                    events |-> <<>>, effects |-> {}, orphans |-> {}]
  /\ JQParked
  /\ DAParked
  /\ ETParked
  /\ RTParked
  /\ CBParked
  /\ EBParked
  /\ EXParked
  /\ APParked
  /\ SSParked
  /\ PLParked

\* Execute: a nil entry is skipped
CASkipNil ==
  /\ MayStart(composite)
  /\ IsNil(composite.Actions[composite.i])
  /\ composite' = [composite EXCEPT !.i = @ + 1]
  /\ UNCHANGED notCA

\* Execute: the next sub-action is started
CAStart ==
  /\ MayStart(composite)
  /\ ~IsNil(composite.Actions[composite.i])
  /\ composite' = [composite EXCEPT
       !.pc = "running",
       !.events = Append(@, [e |-> "start", i |-> composite.i])]
  /\ UNCHANGED notCA

\* the running sub-action returns nil, its effect done, or returns an error
CAReturn ==
  /\ composite.pc = "running"
  /\ composite.Actions[composite.i] \in {"ok", "error"}
  /\ LET ok == composite.Actions[composite.i] = "ok"
         ended == [composite EXCEPT
           !.events = Append(@, [e |-> "end", i |-> composite.i]),
           !.effects = IF ok THEN @ \cup {composite.i} ELSE @]
     IN composite' = AfterOutcome(ended, IF ok THEN "nil" ELSE "error")
  /\ UNCHANGED notCA

\* the running sub-action panics; the panic is recovered and becomes an error
CARecover ==
  /\ composite.pc = "running"
  /\ composite.Actions[composite.i] = "panic"
  /\ composite' = AfterOutcome(
       [composite EXCEPT !.events = Append(@, [e |-> "end", i |-> composite.i])],
       "panic")
  /\ UNCHANGED notCA

\* the timeout fires before the running sub-action returns; the sub-action is
\* left running on its own
CATimeout ==
  /\ composite.pc = "running"
  /\ composite.Actions[composite.i] = "hang"
  /\ composite' = AfterOutcome(
       [composite EXCEPT !.orphans = @ \cup {composite.i}], "timed out")
  /\ UNCHANGED notCA

\* a sub-action that was left running returns at last
CAOrphanReturns ==
  /\ \E i \in composite.orphans :
       composite' = [composite EXCEPT
         !.orphans = @ \ {i},
         !.events = Append(@, [e |-> "end", i |-> i])]
  /\ UNCHANGED notCA

\* Execute returns nil: every sub-action has returned nil or was skipped
CAFinish ==
  /\ composite.pc = "next"
  /\ composite.i > Len(composite.Actions)
  /\ composite' = [composite EXCEPT !.pc = "done"]
  /\ UNCHANGED notCA

NextCA ==
  \/ CASkipNil
  \/ CAStart
  \/ CAReturn
  \/ CARecover
  \/ CATimeout
  \/ CAOrphanReturns
  \/ CAFinish

SpecCA == InitCA /\ [][NextCA]_vars

\* the sub-actions running: started and not yet ended
CARunning ==
  { i \in DOMAIN composite.Actions :
      Cardinality({p \in DOMAIN composite.events :
                     composite.events[p] = [e |-> "start", i |-> i]})
        > Cardinality({p \in DOMAIN composite.events :
                         composite.events[p] = [e |-> "end", i |-> i]}) }

\* C4: the sub-actions of a composite start in declared order, nil entries
\* never start, each starts only after the one started before it has ended,
\* and no two of them run at the same time.
C4_CompositeOrdering ==
  /\ \A p \in DOMAIN composite.events :
       composite.events[p].e = "start"
         => /\ composite.Actions[composite.events[p].i] # "nil"
            /\ \A q \in 1..(p - 1) :
                 composite.events[q].e = "start"
                   => /\ composite.events[q].i < composite.events[p].i
                      /\ \E r \in (q + 1)..(p - 1) :
                           composite.events[r] = [e |-> "end", i |-> composite.events[q].i]
  /\ Cardinality(CARunning) <= 1

\* C4 witness: two sub-actions with a nil entry between them have run to the end
C4_Witness ==
  /\ composite.pc = "done"
  /\ composite.err = ""
  /\ \E i, j, k \in DOMAIN composite.Actions :
       /\ i < j /\ j < k
       /\ composite.Actions[j] = "nil"
       /\ {i, k} \subseteq composite.effects

\* the first sub-action that fails: returns an error, panics or hangs
FirstFailing ==
  { i \in DOMAIN composite.Actions :
      /\ composite.Actions[i] \in {"error", "panic", "hang"}
      /\ \A j \in 1..(i - 1) : composite.Actions[j] \in {"nil", "ok"} }

\* C5: once a sub-action has returned an error, panicked or exceeded the
\* timeout, Execute returns an error that names the failure (a panic as
\* "panic", a timeout as "timed out"), no later sub-action is ever started,
\* and the effects of the sub-actions completed before it are kept.
C5_AbortOnFirstFailure ==
  \A i \in FirstFailing :
    LET failed == \/ \E p \in DOMAIN composite.events :
                       composite.events[p] = [e |-> "end", i |-> i]
                  \/ i \in composite.orphans
    IN /\ failed
         => /\ composite.pc = "done"
            /\ composite.err = (CASE composite.Actions[i] = "error" -> "error"
                                  [] composite.Actions[i] = "panic" -> "panic"
                                  [] OTHER -> "timed out")
            /\ composite.effects
                 = { j \in 1..(i - 1) : composite.Actions[j] = "ok" }
       /\ \A p \in DOMAIN composite.events : composite.events[p].i <= i

\* C5 witness: a sub-action timed out after another completed and before a
\* third could start; it returned later on its own
C5_Witness ==
  /\ composite.pc = "done"
  /\ composite.err = "timed out"
  /\ composite.orphans = {}
  /\ composite.effects # {}
  /\ \E i \in FirstFailing : i < Len(composite.Actions)

\* a composite without a sub-action to run: a nil composite, a nil or empty
\* slice, or a slice of nil entries only
Degenerate == \A i \in DOMAIN composite.Actions : composite.Actions[i] = "nil"

\* C27: Execute on a nil composite, on a nil or empty slice or on a slice of
\* nil entries only starts nothing, reports no error and reaches its return;
\* in a slice that mixes nil entries with actions the nil entries are never
\* started and, when every action returns nil, Execute returns nil with every
\* action executed.
C27_DegenerateComposites ==
  /\ Degenerate
       => /\ composite.events = <<>> /\ composite.effects = {} /\ composite.orphans = {}
          /\ composite.err = ""
          /\ composite.pc \in {"next", "done"}
          /\ composite.pc = "next" => (ENABLED CASkipNil \/ ENABLED CAFinish)
  /\ \A p \in DOMAIN composite.events :
       composite.Actions[composite.events[p].i] # "nil"
  /\ (composite.pc = "done"
      /\ \A i \in DOMAIN composite.Actions : composite.Actions[i] \in {"nil", "ok"})
       => /\ composite.err = ""
          /\ composite.effects = {i \in DOMAIN composite.Actions : composite.Actions[i] = "ok"}

\* C27 witness: Execute on a slice of nil entries only has returned nil
C27_Witness ==
  /\ composite.pc = "done"
  /\ composite.receiver = "slice"
  /\ Len(composite.Actions) >= 2
  /\ Degenerate
  /\ composite.err = ""

(***************************************************************************)
(* Retry policy of the job queue: one Job from its enqueue to a terminal   *)
(* state.                                                                  *)
(***************************************************************************)
\* sseRetryConfig.MaxRetries
SSEMaxRetries == 3

\* the error kinds an execution can end with
ErrorKinds ==
  {"validation", "permission", "not-found", "command-execution", "network", "timeout"}

\* the error kinds an action can return; ExecuteCommandAction.ExecuteContext
\* returns CategoryValidation or CategoryCommandExecution only
ErrorsOf(action) ==
  IF action = "ExecuteCommandAction" THEN {"validation", "command-execution"}
  ELSE ErrorKinds

\* the mutant: every error is retried
IsRetryableAlways(kind) == TRUE

\* the classification of an error as retryable
IsRetryable(kind) ==
  kind \notin {"validation", "permission", "not-found", "command-execution"}

\* the mutant: the retry budget is not looked at
ShouldRetryUnbounded(j, kind) == j.RetryConfig.Enabled /\ IsRetryable(kind)

\* a failed job is rescheduled
ShouldRetry(j, kind) ==
  /\ j.RetryConfig.Enabled
  /\ j.attempts < j.RetryConfig.MaxRetries
  /\ IsRetryable(kind)

\* the RetryConfig the planner gives an action: fixed for SSEAction, from the
\* settings otherwise
RetryConfigsOf(action) ==
  IF action = "SSEAction"
  THEN {[Enabled |-> TRUE, MaxRetries |-> SSEMaxRetries]}
  ELSE {[Enabled |-> e, MaxRetries |-> m] : e \in BOOLEAN, m \in 0..MaxRetryLimit}

TerminalStates == {"succeeded", "failed", "abandoned"}

InitRT ==
  /\ \E action \in {"ExecuteCommandAction", "SSEAction", "MqttAction", "BirdWeatherAction"} :
       \E retryConfig \in RetryConfigsOf(action) :
         job = [action |-> action, RetryConfig |-> retryConfig, attempts |-> 0,
                state |-> "pending", executions |-> 0, errors |-> <<>>]
  /\ ETParked
  /\ DAParked
  /\ JQParked
  /\ CAParked
  /\ PLParked
  /\ SSParked
  /\ APParked
  /\ EXParked
  /\ EBParked
  /\ CBParked

\* a worker pops the job and invokes action.Execute
JobStart ==
  /\ job.state = "pending"
  /\ job' = [job EXCEPT !.state = "running", !.executions = @ + 1]
  /\ UNCHANGED notRT

\* the execution returns nil
JobSucceed ==
  /\ job.state = "running"
  /\ job' = [job EXCEPT !.state = "succeeded"]
  /\ UNCHANGED notRT

\* the execution returns an error of some kind: the job is rescheduled, or
\* abandoned (a non-retryable error), or failed (no retry left)
JobFail(kind) ==
  /\ job.state = "running"
  /\ kind \in ErrorsOf(job.action)
  /\ job' = [job EXCEPT
       !.errors = Append(@, kind),
       !.attempts = IF ShouldRetry(job, kind) THEN @ + 1 ELSE @,
       !.state = IF ShouldRetry(job, kind) THEN "pending"
                 ELSE IF IsRetryable(kind) THEN "failed" ELSE "abandoned"]
  /\ UNCHANGED notRT

NextRT ==
  \/ JobStart
  \/ JobSucceed
  \/ \E kind \in ErrorKinds : JobFail(kind)

SpecRT == InitRT /\ [][NextRT]_vars /\ WF_vars(NextRT)

\* C13: a failed job is executed again only if its RetryConfig is enabled, it
\* has retries left and the error is retryable; after a validation,
\* permission, not-found or command-execution error it is never executed
\* again; no job is executed more than max_retries + 1 times; every job ends
\* in a terminal state.
C13_RetryPolicy ==
  /\ [](/\ job.executions <= job.RetryConfig.MaxRetries + 1
        /\ ~job.RetryConfig.Enabled => job.executions <= 1
        /\ \A i \in DOMAIN job.errors :
             job.errors[i] \in {"validation", "permission", "not-found", "command-execution"}
               => /\ i = Len(job.errors)
                  /\ job.state \in {"failed", "abandoned"}
                  /\ job.executions = i)
  /\ <>(job.state \in TerminalStates)

\* C13 witness: a job has used up its retries on retryable errors
C13_Witness ==
  /\ job.state = "failed"
  /\ job.RetryConfig.Enabled
  /\ job.RetryConfig.MaxRetries >= 2
  /\ job.executions = job.RetryConfig.MaxRetries + 1

(***************************************************************************)
(* Capture buffer: the registry of per-source ring buffers, Write and      *)
(* ReadSegment.  Times are whole seconds.  A byte slice is kept as the     *)
(* sequence of its runs: the run <<v, n>> stands for the n bytes           *)
(* v, v+1, ..., v+n-1, and for n zero bytes when v = 0.  The byte at       *)
(* position i (from 1) of the data of the k-th Write call is k * 10000 + i.*)
(***************************************************************************)
\* number of bytes of a slice
RECURSIVE SliceLen(_)
SliceLen(runs) == IF runs = <<>> THEN 0 ELSE runs[1][2] + SliceLen(Tail(runs))

\* the run r without its first m bytes
RunFrom(r, m) == <<IF r[1] = 0 THEN 0 ELSE r[1] + m, r[2] - m>>

\* the slices a and b one after the other (append(a, b...)), adjoining runs merged
Join(a, b) ==
  IF a = <<>> THEN b
  ELSE IF b = <<>> THEN a
  ELSE LET x == a[Len(a)]
           y == b[1]
       IN IF (x[1] = 0 /\ y[1] = 0) \/ (x[1] # 0 /\ y[1] = x[1] + x[2])
          THEN SubSeq(a, 1, Len(a) - 1) \o <<(<<x[1], x[2] + y[2]>>)>> \o Tail(b)
          ELSE a \o b

\* s[:m]
RECURSIVE Take(_, _)
Take(runs, m) ==
  IF m <= 0 \/ runs = <<>> THEN <<>>
  ELSE IF runs[1][2] <= m THEN <<runs[1]>> \o Take(Tail(runs), m - runs[1][2])
  ELSE <<(<<runs[1][1], m>>)>>

\* s[m:]
RECURSIVE Drop(_, _)
Drop(runs, m) ==
  IF runs = <<>> THEN <<>>
  ELSE IF m <= 0 THEN runs
  ELSE IF runs[1][2] <= m THEN Drop(Tail(runs), m - runs[1][2])
  ELSE <<RunFrom(runs[1], m)>> \o Tail(runs)

\* s[from:to]
Slice(runs, from, to) == Take(Drop(runs, from), to - from)

\* make([]byte, n)
Zeroes(n) == IF n <= 0 THEN <<>> ELSE <<(<<0, n>>)>>

\* the zero time.Time of a buffer nothing was written to
cbZeroTime == 0 - 1000

\* time.Time.Sub in seconds; it saturates at the largest Duration when the
\* subtrahend is the zero time
Sub(t, u) == IF u = cbZeroTime THEN 1000000 ELSE t - u

\* Go's remainder, which has the sign of the dividend
GoMod(a, b) == IF a >= 0 THEN a % b ELSE 0 - ((0 - a) % b)

\* the parameters AllocateCaptureBufferIfNeeded is called with
AllocParams ==
  { [durationSeconds |-> 2, sampleRate |-> 500, bytesPerSample |-> 2, sourceID |-> "mic"],
    [durationSeconds |-> 2, sampleRate |-> 512, bytesPerSample |-> 2, sourceID |-> "mic"],
    [durationSeconds |-> 0, sampleRate |-> 500, bytesPerSample |-> 2, sourceID |-> "mic"],
    [durationSeconds |-> 2, sampleRate |-> 0, bytesPerSample |-> 2, sourceID |-> "mic"],
    [durationSeconds |-> 2, sampleRate |-> 500, bytesPerSample |-> 0, sourceID |-> "mic"],
    [durationSeconds |-> 2, sampleRate |-> 500, bytesPerSample |-> 2, sourceID |-> ""],
    [durationSeconds |-> 2, sampleRate |-> 268435457, bytesPerSample |-> 2, sourceID |-> "mic"] }

\* the buffer size, rounded up to the nearest multiple of 2048
alignedBufferSize(durationSeconds, sampleRate, bytesPerSample) ==
  (((durationSeconds * sampleRate * bytesPerSample) + 2047) \div 2048) * 2048

\* creator is not a field of the code: it names the call that made the buffer
NewCaptureBuffer(durationSeconds, sampleRate, bytesPerSample, source, creator) ==
  [data |-> Zeroes(alignedBufferSize(durationSeconds, sampleRate, bytesPerSample)),
   writeIndex |-> 0,
   sampleRate |-> sampleRate,
   bytesPerSample |-> bytesPerSample,
   bufferSize |-> alignedBufferSize(durationSeconds, sampleRate, bytesPerSample),
   bufferDuration |-> durationSeconds,
   startTime |-> cbZeroTime,
   initialized |-> FALSE,
   source |-> source,
   creator |-> creator]

\* registry.AcquireSourceReference
AcquireSourceReference(refs, source) ==
  MapPut(refs, source, IF source \in DOMAIN refs THEN refs[source] + 1 ELSE 1)

\* the mutant: the allocator without its check for an existing buffer
allocateCaptureBufferInternalReplacing(buffers, refs, p, creator) ==
  IF p.durationSeconds <= 0
  THEN [err |-> "invalid_duration", buffers |-> buffers, refs |-> refs]
  ELSE IF p.sampleRate <= 0
  THEN [err |-> "invalid_sample_rate", buffers |-> buffers, refs |-> refs]
  ELSE IF p.bytesPerSample <= 0
  THEN [err |-> "invalid_bytes_per_sample", buffers |-> buffers, refs |-> refs]
  ELSE IF p.sourceID = ""
  THEN [err |-> "empty_source", buffers |-> buffers, refs |-> refs]
  ELSE IF alignedBufferSize(p.durationSeconds, p.sampleRate, p.bytesPerSample) > 1073741824
  THEN [err |-> "size_too_large", buffers |-> buffers, refs |-> refs]
  ELSE [err |-> "nil",
        buffers |-> MapPut(buffers, p.sourceID,
                           NewCaptureBuffer(p.durationSeconds, p.sampleRate,
                                            p.bytesPerSample, p.sourceID, creator)),
        refs |-> AcquireSourceReference(refs, p.sourceID)]

\* allocateCaptureBufferInternal, called with cbMutex held: the error it
\* returns ("nil" for none), the registry and the source references after it
allocateCaptureBufferInternal(buffers, refs, p, creator) ==
  IF p.durationSeconds <= 0
  THEN [err |-> "invalid_duration", buffers |-> buffers, refs |-> refs]
  ELSE IF p.sampleRate <= 0
  THEN [err |-> "invalid_sample_rate", buffers |-> buffers, refs |-> refs]
  ELSE IF p.bytesPerSample <= 0
  THEN [err |-> "invalid_bytes_per_sample", buffers |-> buffers, refs |-> refs]
  ELSE IF p.sourceID = ""
  THEN [err |-> "empty_source", buffers |-> buffers, refs |-> refs]
  ELSE IF alignedBufferSize(p.durationSeconds, p.sampleRate, p.bytesPerSample) > 1073741824
  THEN [err |-> "size_too_large", buffers |-> buffers, refs |-> refs]
  ELSE IF p.sourceID \in DOMAIN buffers
  THEN [err |-> "already_exists", buffers |-> buffers, refs |-> refs]
  ELSE [err |-> "nil",
        buffers |-> MapPut(buffers, p.sourceID,
                           NewCaptureBuffer(p.durationSeconds, p.sampleRate,
                                            p.bytesPerSample, p.sourceID, creator)),
        refs |-> AcquireSourceReference(refs, p.sourceID)]

\* the mutant: the existence check of AllocateCaptureBufferIfNeeded is missing
BufferExistsNever(buffers, sourceID) == FALSE

\* _, exists := captureBuffers[sourceID]
BufferExists(buffers, sourceID) == sourceID \in DOMAIN buffers

\* AllocateCaptureBufferIfNeeded, between cbMutex.Lock and the deferred Unlock
AllocateCaptureBufferIfNeeded(buffers, refs, p, creator) ==
  IF BufferExists(buffers, p.sourceID)
  THEN [err |-> "nil", buffers |-> buffers, refs |-> refs]
  ELSE allocateCaptureBufferInternal(buffers, refs, p, creator)

\* the data of the k-th Write call, n bytes long
PCM(k, n) == IF n <= 0 THEN <<>> ELSE <<(<<k * 10000 + 1, n>>)>>

\* the lengths of the data Write is called with: nothing, one second of
\* samples, and more than the whole buffer
WriteLens == {0, 1000, 2500}

\* the mutant: the write index is advanced without the modulo
WriteUnwrapped(cb, data, now) ==
  IF SliceLen(data) = 0 THEN cb
  ELSE
    LET startTime == IF ~cb.initialized THEN now ELSE cb.startTime
        prevWriteIndex == cb.writeIndex
        bytesWritten == Min(SliceLen(data), cb.bufferSize - cb.writeIndex)
        writeIndex == cb.writeIndex + bytesWritten
    IN [cb EXCEPT
          !.initialized = TRUE,
          !.data = Join(Join(Take(cb.data, prevWriteIndex), Take(data, bytesWritten)),
                        Drop(cb.data, prevWriteIndex + bytesWritten)),
          !.writeIndex = writeIndex,
          !.startTime = IF writeIndex <= prevWriteIndex
                        THEN now - cb.bufferDuration
                        ELSE startTime]

\* CaptureBuffer.Write at time now
Write(cb, data, now) ==
  IF SliceLen(data) = 0 THEN cb
  ELSE
    LET startTime == IF ~cb.initialized THEN now ELSE cb.startTime
        prevWriteIndex == cb.writeIndex
        \* copy(cb.data[cb.writeIndex:], data) copies what fits
        bytesWritten == Min(SliceLen(data), cb.bufferSize - cb.writeIndex)
        writeIndex == (cb.writeIndex + bytesWritten) % cb.bufferSize
    IN [cb EXCEPT
          !.initialized = TRUE,
          !.data = Join(Join(Take(cb.data, prevWriteIndex), Take(data, bytesWritten)),
                        Drop(cb.data, prevWriteIndex + bytesWritten)),
          !.writeIndex = writeIndex,
          !.startTime = IF writeIndex <= prevWriteIndex
                        THEN now - cb.bufferDuration
                        ELSE startTime]

\* the state of the capture layer before any call
InitCapture ==
  /\ cbClock = 0
  /\ captureBuffers = EmptyMap
  /\ cbMutex = NoOwner
  /\ sourceRefs = EmptyMap
  /\ allocCall = [g \in Goroutines |-> [pc |-> "idle", n |-> 0]]
  /\ lastWrite = [k |-> 0]
  /\ readCall = Idle

InitCBA ==
  /\ InitCapture
  /\ ETParked
  /\ DAParked
  /\ JQParked
  /\ CAParked
  /\ PLParked
  /\ SSParked
  /\ APParked
  /\ EXParked
  /\ EBParked
  /\ RTParked

\* a second of wall-clock time passes
CBTick ==
  /\ cbClock < MaxCBClock
  /\ cbClock' = cbClock + 1
  /\ UNCHANGED <<captureBuffers, cbMutex, sourceRefs, allocCall, lastWrite, readCall>>
  /\ UNCHANGED notCB

AllocCallsMade == allocCall["g1"].n + allocCall["g2"].n

\* a goroutine calls AllocateCaptureBufferIfNeeded and waits for cbMutex
AllocateCall(g, p) ==
  /\ allocCall[g].pc \in {"idle", "returned"}
  /\ AllocCallsMade < MaxAllocCalls
  /\ allocCall' = [allocCall EXCEPT ![g] =
       [pc |-> "waiting", n |-> allocCall[g].n + 1, p |-> p]]
  /\ UNCHANGED <<cbClock, captureBuffers, cbMutex, sourceRefs, lastWrite, readCall>>
  /\ UNCHANGED notCB

\* cbMutex.Lock()
AllocateLock(g) ==
  /\ allocCall[g].pc = "waiting"
  /\ cbMutex = NoOwner
  /\ cbMutex' = g
  /\ allocCall' = [allocCall EXCEPT ![g].pc = "locked"]
  /\ UNCHANGED <<cbClock, captureBuffers, sourceRefs, lastWrite, readCall>>
  /\ UNCHANGED notCB

\* the body of AllocateCaptureBufferIfNeeded and its deferred Unlock
AllocateReturn(g) ==
  /\ allocCall[g].pc = "locked"
  /\ LET r == AllocateCaptureBufferIfNeeded(captureBuffers, sourceRefs, allocCall[g].p,
                                            <<g, allocCall[g].n>>)
     IN /\ captureBuffers' = r.buffers
        /\ sourceRefs' = r.refs
        /\ allocCall' = [allocCall EXCEPT ![g] =
             [pc |-> "returned", n |-> allocCall[g].n, p |-> allocCall[g].p,
              err |-> r.err, existed |-> allocCall[g].p.sourceID \in DOMAIN captureBuffers]]
  /\ cbMutex' = NoOwner
  /\ UNCHANGED <<cbClock, lastWrite, readCall>>
  /\ UNCHANGED notCB

\* WriteToCaptureBuffer(sourceID, data): the buffer is looked up under
\* cbMutex.RLock, then cb.Write runs under the buffer's lock.  The capture
\* loop delivers at most one chunk per observed second.
WriteToCaptureBuffer(sourceID, len) ==
  /\ lastWrite.k < MaxWrites
  /\ lastWrite.k > 0 => lastWrite.at < cbClock
  /\ cbMutex = NoOwner
  /\ sourceID \in DOMAIN captureBuffers
  /\ LET cb == captureBuffers[sourceID]
         data == PCM(lastWrite.k + 1, len)
     IN /\ captureBuffers' = MapPut(captureBuffers, sourceID, Write(cb, data, cbClock))
        /\ lastWrite' = [k |-> lastWrite.k + 1, len |-> len, at |-> cbClock,
                         prevWriteIndex |-> cb.writeIndex, prevStartTime |-> cb.startTime]
  /\ UNCHANGED <<cbClock, cbMutex, sourceRefs, allocCall, readCall>>
  /\ UNCHANGED notCB

NextCBA ==
  \/ \E g \in Goroutines, p \in AllocParams : AllocateCall(g, p)
  \/ \E g \in Goroutines : AllocateLock(g)
  \/ \E g \in Goroutines : AllocateReturn(g)
  \/ \E len \in WriteLens : WriteToCaptureBuffer("mic", len)

SpecCBA == InitCBA /\ [][NextCBA]_vars

\* parameters allocateCaptureBufferInternal accepts
ValidAllocParams(p) ==
  /\ p.durationSeconds > 0
  /\ p.sampleRate > 0
  /\ p.bytesPerSample > 0
  /\ p.sourceID # ""
  /\ alignedBufferSize(p.durationSeconds, p.sampleRate, p.bytesPerSample) <= 1073741824

\* C14: every AllocateCaptureBufferIfNeeded call with valid parameters
\* returns nil; the first one registers a buffer for the source, made by that
\* call, and acquires the source's one reference; every later one leaves the
\* registry, the buffer's contents and the references unchanged; a registered
\* buffer is never replaced by another.
C14_IdempotentAllocation ==
  [][ /\ \A g \in Goroutines :
           ( /\ allocCall[g].pc = "locked"
             /\ allocCall'[g].pc = "returned"
             /\ ValidAllocParams(allocCall[g].p) )
           => LET src == allocCall[g].p.sourceID
              IN /\ allocCall'[g].err = "nil"
                 /\ src \in DOMAIN captureBuffers'
                 /\ sourceRefs'[src] = 1
                 /\ IF src \in DOMAIN captureBuffers
                    THEN captureBuffers' = captureBuffers /\ sourceRefs' = sourceRefs
                    ELSE /\ captureBuffers'[src].creator = <<g, allocCall[g].n>>
                         /\ captureBuffers'[src].writeIndex = 0
      /\ \A src \in DOMAIN captureBuffers :
           /\ src \in DOMAIN captureBuffers'
           /\ captureBuffers'[src].creator = captureBuffers[src].creator
           /\ captureBuffers'[src].bufferSize = captureBuffers[src].bufferSize
    ]_vars

\* the body of AllocateCaptureBuffer and its deferred Unlock
AllocateCaptureBuffer(g) ==
  /\ allocCall[g].pc = "locked"
  /\ LET r == allocateCaptureBufferInternal(captureBuffers, sourceRefs, allocCall[g].p,
                                            <<g, allocCall[g].n>>)
     IN /\ captureBuffers' = r.buffers
        /\ sourceRefs' = r.refs
        /\ allocCall' = [allocCall EXCEPT ![g] =
             [pc |-> "returned", n |-> allocCall[g].n, p |-> allocCall[g].p,
              err |-> r.err, existed |-> allocCall[g].p.sourceID \in DOMAIN captureBuffers]]
  /\ cbMutex' = NoOwner
  /\ UNCHANGED <<cbClock, lastWrite, readCall>>
  /\ UNCHANGED notCB

\* the callers of AllocateCaptureBuffer: the call and cbMutex.Lock are those of
\* AllocateCaptureBufferIfNeeded
NextCBD ==
  \/ \E g \in Goroutines, p \in AllocParams : AllocateCall(g, p)
  \/ \E g \in Goroutines : AllocateLock(g)
  \/ \E g \in Goroutines : AllocateCaptureBuffer(g)
  \/ \E len \in WriteLens : WriteToCaptureBuffer("mic", len)

SpecCBD == InitCBA /\ [][NextCBD]_vars

\* the reference count of a source, zero when it has none
RefCount(refs, source) == IF source \in DOMAIN refs THEN refs[source] ELSE 0

C14_Witness ==
  \E g \in Goroutines :
    /\ allocCall[g].pc = "returned"
    /\ ValidAllocParams(allocCall[g].p)
    /\ allocCall[g].existed
    /\ allocCall[g].err = "nil"
    /\ captureBuffers[allocCall[g].p.sourceID].creator[1] # g
    /\ captureBuffers[allocCall[g].p.sourceID].writeIndex > 0
    /\ captureBuffers[allocCall[g].p.sourceID].sampleRate # allocCall[g].p.sampleRate

(***************************************************************************)
(* Capture buffer: one registered buffer, its writer and a ReadSegment     *)
(* call, under the wall clock.                                             *)
(***************************************************************************)
\* the mutant: the read returns as soon as the clock reaches the end time
AfterOrAt(now, t) == now >= t

\* time.Time.After
After(now, t) == now > t

\* one iteration of the loop of ReadSegment, between cb.lock.Lock and Unlock:
\* an error, the segment, or "sleep" when the end time has not passed
ReadSegment(cb, requestedStartTime, duration, now) ==
  LET requestedEndTime == requestedStartTime + duration
      startOffset == Sub(requestedStartTime, cb.startTime)
      endOffset == Sub(requestedEndTime, cb.startTime)
      startBytes == startOffset * cb.sampleRate * cb.bytesPerSample
      startIndex0 == GoMod(startBytes, cb.bufferSize)
      endIndex == GoMod(endOffset * cb.sampleRate * cb.bytesPerSample, cb.bufferSize)
      startIndex == IF startOffset < 0
                    THEN GoMod(cb.bufferSize + startIndex0, cb.bufferSize)
                    ELSE startIndex0
  IN IF startOffset < 0 /\ (cb.writeIndex = 0 \/ cb.writeIndex + startBytes > cb.bufferSize)
     THEN [kind |-> "error", err |-> "outside_timeframe", segment |-> <<>>]
     ELSE IF endOffset < 0 \/ endOffset <= startOffset
     THEN [kind |-> "error", err |-> "invalid_duration", segment |-> <<>>]
     ELSE IF After(now, requestedEndTime)
     THEN [kind |-> "segment", err |-> "nil",
           segment |-> IF startIndex < endIndex
                       THEN Join(Zeroes(0), Slice(cb.data, startIndex, endIndex))
                       ELSE Join(Drop(cb.data, startIndex), Take(cb.data, endIndex))]
     ELSE [kind |-> "sleep", err |-> "nil", segment |-> <<>>]

\* the capture layer after the first AllocateCaptureBufferIfNeeded call
InitCB ==
  /\ \E p \in {q \in AllocParams : ValidAllocParams(q)} :
       /\ captureBuffers =
            AllocateCaptureBufferIfNeeded(EmptyMap, EmptyMap, p, <<"g1", 1>>).buffers
       /\ sourceRefs =
            AllocateCaptureBufferIfNeeded(EmptyMap, EmptyMap, p, <<"g1", 1>>).refs
       /\ allocCall = [g \in Goroutines |->
            IF g = "g1"
            THEN [pc |-> "returned", n |-> 1, p |-> p, err |-> "nil", existed |-> FALSE]
            ELSE [pc |-> "idle", n |-> 0]]
  /\ cbClock = 0
  /\ cbMutex = NoOwner
  /\ lastWrite = [k |-> 0]
  /\ readCall = Idle
  /\ ETParked
  /\ DAParked
  /\ JQParked
  /\ CAParked
  /\ PLParked
  /\ SSParked
  /\ APParked
  /\ EXParked
  /\ EBParked
  /\ RTParked

\* ReadSegmentFromCaptureBuffer(sourceID, requestedStartTime, duration) is
\* called: the buffer is looked up, ReadSegment enters its loop
ReadSegmentCall(sourceID, requestedStartTime, duration) ==
  /\ readCall.pc = "idle"
  /\ cbMutex = NoOwner
  /\ sourceID \in DOMAIN captureBuffers
  /\ requestedStartTime + duration < MaxCBClock
  /\ readCall' = [pc |-> "loop", source |-> sourceID,
                  requestedStartTime |-> requestedStartTime, duration |-> duration,
                  wakeAt |-> cbClock]
  /\ UNCHANGED <<cbClock, captureBuffers, cbMutex, sourceRefs, allocCall, lastWrite>>
  /\ UNCHANGED notCB

\* one iteration of the loop: ReadSegment returns, or sleeps for a second.
\* at and cb record the time of the return and the buffer as it was then.
ReadSegmentLoop ==
  /\ readCall.pc = "loop"
  /\ cbClock >= readCall.wakeAt
  /\ LET cb == captureBuffers[readCall.source]
         r == ReadSegment(cb, readCall.requestedStartTime, readCall.duration, cbClock)
     IN readCall' =
          IF r.kind = "sleep"
          THEN [readCall EXCEPT !.wakeAt = cbClock + 1]
          ELSE [pc |-> "returned", source |-> readCall.source,
                requestedStartTime |-> readCall.requestedStartTime,
                duration |-> readCall.duration,
                err |-> r.err, segment |-> r.segment, at |-> cbClock, cb |-> cb]
  /\ UNCHANGED <<cbClock, captureBuffers, cbMutex, sourceRefs, allocCall, lastWrite>>
  /\ UNCHANGED notCB

NextCB ==
  \/ CBTick
  \/ \E len \in WriteLens : WriteToCaptureBuffer("mic", len)
  \/ \E t \in 0..MaxCBClock, d \in (0 - 1)..3 : ReadSegmentCall("mic", t, d)
  \/ ReadSegmentLoop

SpecCB == InitCB /\ [][NextCB]_vars

\* the buffer the last Write call wrote to
Written == captureBuffers["mic"]

\* C15: a Write of non-empty data leaves write_index at (old write_index +
\* len(data)) mod capacity with all of the data in the buffer from the old
\* write_index on, the part that does not fit before the end continuing at
\* index 0; a write that reaches or passes the end sets start_time to
\* now - buffer_duration.
C15_WriteWraps ==
  (lastWrite.k > 0 /\ lastWrite.len > 0) =>
    LET size == Written.bufferSize
        prev == lastWrite.prevWriteIndex
        data == PCM(lastWrite.k, lastWrite.len)
        over == prev + lastWrite.len - size
    IN /\ Written.writeIndex = (prev + lastWrite.len) % size
       /\ IF over <= 0
          THEN Slice(Written.data, prev, prev + lastWrite.len) = data
          ELSE /\ over <= prev =>
                    /\ Drop(Written.data, prev) = Take(data, size - prev)
                    /\ Take(Written.data, over) = Drop(data, size - prev)
               /\ Written.startTime = lastWrite.at - Written.bufferDuration
       /\ over = 0 => Written.startTime = lastWrite.at - Written.bufferDuration

C16_ReadRejection ==
  ( /\ readCall.pc = "returned"
    /\ \/ (readCall.cb.initialized /\ readCall.requestedStartTime < readCall.cb.startTime)
       \/ readCall.duration <= 0 )
  => (readCall.err # "nil" /\ readCall.segment = <<>>)

\* the slice s turned so that it begins at index i
Rotate(s, i) == Join(Drop(s, i), Take(s, i))

\* a request ReadSegment has to serve: the buffer has been written to, the
\* window starts at or after start_time and its positive length is at most
\* the buffer's duration
ValidRead(cb, requestedStartTime, duration) ==
  /\ cb.initialized
  /\ requestedStartTime >= cb.startTime
  /\ duration > 0
  /\ duration <= cb.bufferDuration

\* the index of the byte the buffer holds for time t
IndexAt(cb, t) == ((t - cb.startTime) * cb.sampleRate * cb.bytesPerSample) % cb.bufferSize

\* the bytes the buffer holds for [requestedStartTime, requestedStartTime + duration)
WindowBytes(cb, requestedStartTime, duration) ==
  Take(Rotate(cb.data, IndexAt(cb, requestedStartTime)),
       duration * cb.sampleRate * cb.bytesPerSample)

EventTypes == {"error", "resource", "detection"}

\* the events of each type that publishers hand to the bus
EventsOf(kind) ==
  CASE kind = "error" -> {"disk"}
    [] kind = "resource" -> {"cpu"}
    [] kind = "detection" -> {"robin", "wren"}

\* configurations Initialize is called with: channel capacity, number of
\* workers, and whether a deduplicator is made
BusConfigs ==
  { [BufferSize |-> 1, Workers |-> 1, Deduplication |-> TRUE],
    [BufferSize |-> 2, Workers |-> 1, Deduplication |-> FALSE] }

\* consumers handed to RegisterConsumer: their Name() and whether they
\* implement ResourceEventConsumer and DetectionEventConsumer
Consumers ==
  { [name |-> "log", resource |-> FALSE, detection |-> FALSE],
    [name |-> "telemetry", resource |-> TRUE, detection |-> TRUE] }

\* what a consumer's Process*Event call can do
ConsumerOutcomes == {"nil", "error", "panic"}

ZeroStats ==
  [EventsReceived |-> 0, EventsSuppressed |-> 0, EventsProcessed |-> 0,
   EventsDropped |-> 0, ConsumerErrors |-> 0, FastPathHits |-> 0]

\* the EventBus Initialize returns; starts counts the calls of start() that
\* launched workers, seen is the deduplicator's memory, cancelled tells
\* whether eb.cancel() was called on eb.ctx
NewEventBus(config) ==
  [config |-> config,
   initialized |-> TRUE,
   running |-> FALSE,
   consumers |-> <<>>,
   resourceConsumers |-> <<>>,
   detectionConsumers |-> <<>>,
   chan |-> [kind \in EventTypes |-> <<>>],
   stats |-> ZeroStats,
   seen |-> {},
   starts |-> 0,
   cancelled |-> FALSE]

\* the mutant: the duplicate check of RegisterConsumer is missing
IsRegisteredNever(consumers, name) == FALSE

\* the loop over eb.consumers comparing Name()
IsRegistered(consumers, name) == \E i \in DOMAIN consumers : consumers[i].name = name

\* the mutant: the send succeeds whatever the channel holds
TrySendAlways(ch, capacity, event) == [sent |-> TRUE, ch |-> Append(ch, event)]

\* select { case ch <- event: ... default: ... } on a channel of the given capacity
TrySend(ch, capacity, event) ==
  IF Len(ch) < capacity
  THEN [sent |-> TRUE, ch |-> Append(ch, event)]
  ELSE [sent |-> FALSE, ch |-> ch]

\* deduplicator.ShouldProcess: an event is processed the first time its
\* content is seen
ShouldProcess(seen, event) == event \notin seen

\* the consumers an event of the given type is fanned out to
ConsumersFor(b, kind) ==
  CASE kind = "error" -> b.consumers
    [] kind = "resource" -> b.resourceConsumers
    [] kind = "detection" -> b.detectionConsumers

\* the mutant: no deferred recover in processEvent
RecoversNever(outcome) == outcome # "panic"

\* processEvent returns to its caller after the consumer's call: always,
\* the panic being recovered by the deferred function
Recovers(outcome) == TRUE

\* what processEvent adds to the statistics for a consumer call's outcome
CountOutcome(stats, outcome) ==
  IF outcome = "nil"
  THEN [stats EXCEPT !.EventsProcessed = @ + 1]
  ELSE [stats EXCEPT !.ConsumerErrors = @ + 1]

BusWorkerIds == 1..2

\* the goroutines that publish; those of Goroutines register consumers
Publishers == {"p1"}

InitEB ==
  /\ \E config \in BusConfigs : bus = NewEventBus(config)
  /\ hasActiveConsumers = FALSE
  /\ busMu = NoOwner
  /\ busCall = [g \in Goroutines \cup Publishers |-> Idle]
  /\ busCalls = [RegisterConsumer |-> 0, TryPublish |-> 0]
  /\ busWorkers = [w \in BusWorkerIds |-> [pc |-> "off"]]
  /\ ETParked
  /\ DAParked
  /\ JQParked
  /\ CAParked
  /\ PLParked
  /\ SSParked
  /\ APParked
  /\ EXParked
  /\ RTParked
  /\ CBParked

\* a goroutine calls RegisterConsumer(consumer): eb.mu.Lock(), which waits
\* while another goroutine holds eb.mu
RegisterCall(g, consumer) ==
  /\ busCall[g].pc \in {"idle", "returned"}
  /\ busCalls.RegisterConsumer < MaxRegistrations
  /\ busMu = NoOwner
  /\ busMu' = g
  /\ busCalls' = [busCalls EXCEPT !.RegisterConsumer = @ + 1]
  /\ busCall' = [busCall EXCEPT ![g] = [pc |-> "locked", consumer |-> consumer]]
  /\ UNCHANGED <<hasActiveConsumers, bus, busWorkers>>
  /\ UNCHANGED notEB

\* eb.start(): the workers are launched unless running.Swap(true) finds the
\* bus running
start(b) == IF b.running THEN b ELSE [b EXCEPT !.running = TRUE, !.starts = @ + 1]

\* the body of RegisterConsumer under eb.mu: the duplicate check, the
\* appends, hasActiveConsumers.Store(true), start() for the first consumer
\* of a bus that is not running, and the deferred Unlock
RegisterAppend(g) ==
  /\ busCall[g].pc = "locked"
  /\ LET consumer == busCall[g].consumer
         appended == [bus EXCEPT
           !.consumers = Append(@, consumer),
           !.resourceConsumers = IF consumer.resource THEN Append(@, consumer) ELSE @,
           !.detectionConsumers = IF consumer.detection THEN Append(@, consumer) ELSE @]
         first == Len(appended.consumers) = 1 /\ ~appended.running
     IN IF IsRegistered(bus.consumers, consumer.name)
        THEN /\ busCall' = [busCall EXCEPT ![g] =
                  [pc |-> "returned", err |-> "already registered"]]
             /\ UNCHANGED <<hasActiveConsumers, bus, busWorkers>>
        ELSE /\ bus' = IF first THEN start(appended) ELSE appended
             /\ busWorkers' = [w \in BusWorkerIds |->
                  IF first /\ w <= bus.config.Workers THEN Idle ELSE busWorkers[w]]
             /\ hasActiveConsumers' = TRUE
             /\ busCall' = [busCall EXCEPT ![g] = [pc |-> "returned", err |-> "nil"]]
  /\ busMu' = NoOwner
  /\ UNCHANGED busCalls
  /\ UNCHANGED notEB

\* TryPublish / TryPublishResource / TryPublishDetection up to the lock: the
\* loads of hasActiveConsumers, initialized and running
PublishCall(g, kind, event) ==
  /\ busCall[g].pc \in {"idle", "returned"}
  /\ busCalls.TryPublish < MaxPublishes
  /\ busCalls' = [busCalls EXCEPT !.TryPublish = @ + 1]
  /\ IF ~hasActiveConsumers
     THEN /\ bus' = [bus EXCEPT !.stats.FastPathHits = @ + 1]
          /\ busCall' = [busCall EXCEPT ![g] = [pc |-> "returned", result |-> FALSE]]
     ELSE IF ~bus.initialized \/ ~bus.running
     THEN /\ busCall' = [busCall EXCEPT ![g] = [pc |-> "returned", result |-> FALSE]]
          /\ UNCHANGED bus
     ELSE /\ busCall' = [busCall EXCEPT ![g] =
               [pc |-> "publish", kind |-> kind, event |-> event]]
          /\ UNCHANGED bus
  /\ UNCHANGED <<hasActiveConsumers, busMu, busWorkers>>
  /\ UNCHANGED notEB

\* eb.mu.Lock(); hasConsumers := len(eb.consumers) > 0; eb.mu.Unlock()
PublishCheck(g) ==
  /\ busCall[g].pc = "publish"
  /\ busMu = NoOwner
  /\ IF Len(bus.consumers) > 0
     THEN /\ busCall' = [busCall EXCEPT ![g].pc = "send"]
          /\ UNCHANGED bus
     ELSE /\ bus' = [bus EXCEPT !.stats.FastPathHits = @ + 1]
          /\ busCall' = [busCall EXCEPT ![g] = [pc |-> "returned", result |-> FALSE]]
  /\ UNCHANGED <<hasActiveConsumers, busMu, busCalls, busWorkers>>
  /\ UNCHANGED notEB

\* the deduplication check of TryPublish and the non-blocking send
PublishSend(g) ==
  /\ busCall[g].pc = "send"
  /\ LET kind == busCall[g].kind
         event == busCall[g].event
         r == TrySend(bus.chan[kind], bus.config.BufferSize, event)
     IN IF kind = "error" /\ bus.config.Deduplication /\ ~ShouldProcess(bus.seen, event)
        THEN /\ bus' = [bus EXCEPT !.stats.EventsSuppressed = @ + 1]
             /\ busCall' = [busCall EXCEPT ![g] = [pc |-> "returned", result |-> TRUE]]
        ELSE /\ bus' = [bus EXCEPT
                  !.seen = IF kind = "error" /\ bus.config.Deduplication
                           THEN @ \cup {event} ELSE @,
                  !.chan[kind] = r.ch,
                  !.stats.EventsReceived = IF r.sent THEN @ + 1 ELSE @,
                  !.stats.EventsDropped = IF r.sent THEN @ ELSE @ + 1]
             /\ busCall' = [busCall EXCEPT ![g] = [pc |-> "returned", result |-> r.sent]]
  /\ UNCHANGED <<hasActiveConsumers, busMu, busCalls, busWorkers>>
  /\ UNCHANGED notEB

\* a worker's select receives an event from one of the channels
WorkerReceive(w, kind) ==
  /\ busWorkers[w].pc = "idle"
  /\ bus.chan[kind] # <<>>
  /\ bus' = [bus EXCEPT !.chan[kind] = Tail(@)]
  /\ busWorkers' = [busWorkers EXCEPT ![w] =
       [pc |-> "received", kind |-> kind, event |-> Head(bus.chan[kind])]]
  /\ UNCHANGED <<hasActiveConsumers, busMu, busCall, busCalls>>
  /\ UNCHANGED notEB

\* the mutant: eb.mu is unlocked by a defer, after the consumers were called
MuHeldThroughFanOut(mu) == "worker"

\* eb.mu after process*Event has copied the consumer list: eb.mu.Unlock()
\* comes before the loop over the copy
MuAfterCopy(mu) == NoOwner

\* process*Event copies the consumer list under eb.mu, releases it and
\* processEvent calls the first consumer's Process*Event; with no consumer
\* for the event the worker waits for the next event
WorkerCopyConsumers(w) ==
  /\ busWorkers[w].pc = "received"
  /\ busMu = NoOwner
  /\ busMu' = MuAfterCopy(busMu)
  /\ busWorkers' = [busWorkers EXCEPT ![w] =
       IF ConsumersFor(bus, busWorkers[w].kind) = <<>>
       THEN Idle
       ELSE [pc |-> "consumer", kind |-> busWorkers[w].kind, event |-> busWorkers[w].event,
             to |-> ConsumersFor(bus, busWorkers[w].kind), calls |-> <<>>]]
  /\ UNCHANGED <<hasActiveConsumers, bus, busCall, busCalls>>
  /\ UNCHANGED notEB

\* the consumer's call ends: it returns nil or an error, or it panics and
\* the deferred function of processEvent recovers; the loop calls the next
\* consumer, and after the last one the worker waits for an event again.
\* calls lists the consumers called for the event, with the outcomes.
WorkerReturn(w, outcome) ==
  /\ busWorkers[w].pc = "consumer"
  /\ LET me == busWorkers[w]
         calls == Append(me.calls, <<me.to[Len(me.calls) + 1].name, outcome>>)
     IN /\ bus' = [bus EXCEPT !.stats = CountOutcome(@, outcome)]
        /\ busWorkers' = [busWorkers EXCEPT ![w] =
             IF ~Recovers(outcome)
             THEN [me EXCEPT !.pc = "crashed", !.calls = calls]
             ELSE IF Len(calls) = Len(me.to)
             THEN Idle
             ELSE [me EXCEPT !.calls = calls]]
  /\ UNCHANGED <<hasActiveConsumers, busMu, busCall, busCalls>>
  /\ UNCHANGED notEB

NextEB ==
  \/ \E g \in Goroutines, consumer \in Consumers : RegisterCall(g, consumer)
  \/ \E g \in Goroutines : RegisterAppend(g)
  \/ \E g \in Publishers, kind \in EventTypes : \E event \in EventsOf(kind) :
       PublishCall(g, kind, event)
  \/ \E g \in Publishers : PublishCheck(g)
  \/ \E g \in Publishers : PublishSend(g)
  \/ \E w \in BusWorkerIds, kind \in EventTypes : WorkerReceive(w, kind)
  \/ \E w \in BusWorkerIds : WorkerCopyConsumers(w)
  \/ \E w \in BusWorkerIds, outcome \in ConsumerOutcomes : WorkerReturn(w, outcome)

SpecEB == InitEB /\ [][NextEB]_vars

(***************************************************************************)
(* The event bus with Shutdown: one kind of event, consumers that return   *)
(* nil.                                                                    *)
(***************************************************************************)
\* Shutdown(timeout) of an initialized bus: running.Store(false), the
\* deduplicator's shutdown, eb.cancel(); the wait for the workers, bounded by
\* the timeout, changes nothing of the bus
Shutdown ==
  /\ bus.initialized
  /\ bus' = [bus EXCEPT !.running = FALSE, !.cancelled = TRUE]
  /\ UNCHANGED <<hasActiveConsumers, busMu, busCall, busCalls, busWorkers>>
  /\ UNCHANGED notEB

\* a worker's select takes <-eb.ctx.Done() and the worker returns
WorkerStop(w) ==
  /\ busWorkers[w].pc = "idle"
  /\ bus.cancelled
  /\ busWorkers' = [busWorkers EXCEPT ![w] = [pc |-> "off"]]
  /\ UNCHANGED <<hasActiveConsumers, bus, busMu, busCall, busCalls>>
  /\ UNCHANGED notEB

NextES ==
  \/ \E g \in Goroutines, consumer \in Consumers : RegisterCall(g, consumer)
  \/ \E g \in Goroutines : RegisterAppend(g)
  \/ Shutdown
  \/ \E g \in Publishers : PublishCall(g, "detection", "robin")
  \/ \E g \in Publishers : PublishCheck(g)
  \/ \E g \in Publishers : PublishSend(g)
  \/ \E w \in BusWorkerIds : WorkerReceive(w, "detection")
  \/ \E w \in BusWorkerIds : WorkerCopyConsumers(w)
  \/ \E w \in BusWorkerIds : WorkerReturn(w, "nil")
  \/ \E w \in BusWorkerIds : WorkerStop(w)

SpecES == InitEB /\ [][NextES]_vars

\* Claim C35: a TryPublish* call made once Shutdown has been called returns
\* false, whatever was done since the shutdown, a RegisterConsumer included.
C35_NoPublishAfterShutdown ==
  [][\A g \in Publishers :
       ( /\ bus.cancelled
         /\ busCalls'.TryPublish = busCalls.TryPublish + 1 )
       => /\ busCall'[g].pc = "returned"
          /\ ~busCall'[g].result
    ]_vars

\* a call made after the shutdown was accepted: its event is in the channel
\* of a bus whose context is cancelled and whose workers have all returned
C35_AcceptedAfterShutdown ==
  /\ bus.cancelled
  /\ bus.running
  /\ bus.chan["detection"] # <<>>
  /\ \A w \in BusWorkerIds : busWorkers[w].pc = "off"
  /\ \E g \in Publishers : busCall[g].pc = "returned" /\ busCall[g].result
  /\ bus.stats.EventsReceived = 1


\* a step in which goroutine g's TryPublish* call returns
PublishReturns(g) ==
  /\ busCall'[g].pc = "returned"
  /\ \/ busCalls'.TryPublish = busCalls.TryPublish + 1
     \/ busCall[g].pc \in {"publish", "send"}

\* the step put the call's event at the end of the channel of its type
Accepted(g) ==
  /\ busCall[g].pc = "send"
  /\ bus'.chan = [bus.chan EXCEPT ![busCall[g].kind] = Append(@, busCall[g].event)]

\* the call has reached its send and the channel of its event is full
ChannelFull(g) ==
  /\ busCall[g].pc = "send"
  /\ Len(bus.chan[busCall[g].kind]) = bus.config.BufferSize

\* the call's event is an error event the deduplicator has seen before
Duplicate(g) ==
  /\ busCall[g].pc = "send"
  /\ busCall[g].kind = "error"
  /\ bus.config.Deduplication
  /\ busCall[g].event \in bus.seen

\* a call that reached its send is never made to wait
NeverBlocks == \A g \in Publishers : busCall[g].pc = "send" => ENABLED PublishSend(g)

\* C18 as stated: TryPublish* never block; a call returns true exactly when
\* its event was accepted into its channel; it returns false when no
\* consumer is registered, and when the channel is full, where the
\* dropped-events counter goes up by one and the channels are unchanged.
C18_PublishContract ==
  /\ []NeverBlocks
  /\ [][\A g \in Publishers : PublishReturns(g) =>
          /\ busCall'[g].result = Accepted(g)
          /\ (~hasActiveConsumers \/ bus.consumers = <<>>) => ~busCall'[g].result
          /\ ChannelFull(g) =>
               /\ ~busCall'[g].result
               /\ bus'.stats.EventsDropped = bus.stats.EventsDropped + 1
               /\ bus'.chan = bus.chan]_vars

\* C18 amended: TryPublish* never block; a call returns true exactly when
\* its event was accepted into its channel or, in TryPublish with
\* deduplication, suppressed as a duplicate (the suppressed-events counter
\* goes up by one, the channels are unchanged); it returns false when no
\* consumer is registered, and when the channel is full and the event is no
\* duplicate, where the dropped-events counter goes up by one and the
\* channels are unchanged.
C18_PublishContractAmended ==
  /\ []NeverBlocks
  /\ [][\A g \in Publishers : PublishReturns(g) =>
          /\ busCall'[g].result = (Accepted(g) \/ Duplicate(g))
          /\ Duplicate(g) =>
               /\ bus'.stats.EventsSuppressed = bus.stats.EventsSuppressed + 1
               /\ bus'.chan = bus.chan
          /\ (~hasActiveConsumers \/ bus.consumers = <<>>) => ~busCall'[g].result
          /\ (ChannelFull(g) /\ ~Duplicate(g)) =>
               /\ ~busCall'[g].result
               /\ bus'.stats.EventsDropped = bus.stats.EventsDropped + 1
               /\ bus'.chan = bus.chan]_vars

\* a duplicate error event has been suppressed: the call returned true, the
\* event accepted before it is still the only one in the full channel
C18_Witness ==
  /\ busCall["p1"].pc = "returned"
  /\ busCall["p1"].result
  /\ bus.stats.EventsSuppressed = 1
  /\ bus.stats.EventsReceived = 1
  /\ Len(bus.chan["error"]) = bus.config.BufferSize


\* the names of a consumer list are pairwise different
UniqueNames(consumers) ==
  \A i, j \in DOMAIN consumers : consumers[i].name = consumers[j].name => i = j

\* the workers of the bus that are running
RunningWorkers == {w \in BusWorkerIds : busWorkers[w].pc # "off"}

\* a step in which goroutine g's RegisterConsumer call returns
RegisterReturns(g) == busCall[g].pc = "locked" /\ busCall'[g].pc = "returned"

\* C19: after any sequence of possibly concurrent RegisterConsumer calls the
\* consumer lists hold at most one consumer per name; a registration under a
\* registered name returns an error and leaves the lists unchanged; the
\* workers are started exactly once, by the first successful registration,
\* and never a second set of them.
C19_IdempotentRegistration ==
  /\ [](/\ UniqueNames(bus.consumers)
        /\ UniqueNames(bus.resourceConsumers)
        /\ UniqueNames(bus.detectionConsumers)
        /\ bus.starts = (IF bus.consumers = <<>> THEN 0 ELSE 1)
        /\ Cardinality(RunningWorkers) = bus.starts * bus.config.Workers)
  /\ [][\A g \in Goroutines : RegisterReturns(g) =>
          LET consumer == busCall[g].consumer
              registered == \E i \in DOMAIN bus.consumers :
                              bus.consumers[i].name = consumer.name
          IN IF registered
             THEN /\ busCall'[g].err # "nil"
                  /\ bus' = bus
                  /\ busWorkers' = busWorkers
             ELSE /\ busCall'[g].err = "nil"
                  /\ bus'.consumers = Append(bus.consumers, consumer)
                  /\ bus'.starts = bus.starts + (IF bus.consumers = <<>> THEN 1 ELSE 0)
                  /\ bus.consumers # <<>> => busWorkers' = busWorkers]_vars

\* two goroutines' registrations under one name have returned: one succeeded
\* and started the workers, the other was refused
C19_Witness ==
  /\ busCall["g1"].pc = "returned"
  /\ busCall["g2"].pc = "returned"
  /\ busCall["g1"].err = "nil"
  /\ busCall["g2"].err # "nil"
  /\ Len(bus.consumers) = 1
  /\ bus.starts = 1
  /\ RunningWorkers # {}


\* the worker is fanning an event out: the consumers called so far are the
\* first ones of the list copied for the event, in its order
CalledInOrder(w) ==
  busWorkers[w].pc = "consumer" =>
    /\ Len(busWorkers[w].calls) < Len(busWorkers[w].to)
    /\ \A i \in DOMAIN busWorkers[w].calls :
         busWorkers[w].calls[i][1] = busWorkers[w].to[i].name

\* a running worker goes on: a consumer's call can end in every way, and
\* between events the worker takes the next event of a channel that has one
WorkerGoesOn(w) ==
  /\ busWorkers[w].pc # "crashed"
  /\ busWorkers[w].pc = "consumer" => \A outcome \in ConsumerOutcomes : ENABLED WorkerReturn(w, outcome)
  /\ busWorkers[w].pc = "idle" =>
       \A kind \in EventTypes : bus.chan[kind] # <<>> => ENABLED WorkerReceive(w, kind)

\* C20: when a consumer called in a worker's fan-out panics or returns an
\* error, the failure is counted as one consumer error, the worker goes on
\* to every remaining consumer of the list with the same event, and after the
\* last consumer it waits for events again and takes the next one.
C20_FailureIsolation ==
  /\ [](\A w \in BusWorkerIds : CalledInOrder(w) /\ WorkerGoesOn(w))
  /\ [][\A w \in BusWorkerIds : \A outcome \in {"error", "panic"} :
          WorkerReturn(w, outcome) =>
            LET me == busWorkers[w]
                called == Len(me.calls) + 1
            IN /\ bus'.stats.ConsumerErrors = bus.stats.ConsumerErrors + 1
               /\ bus'.stats.EventsProcessed = bus.stats.EventsProcessed
               /\ bus'.chan = bus.chan
               /\ IF called < Len(me.to)
                  THEN /\ busWorkers'[w].pc = "consumer"
                       /\ busWorkers'[w].event = me.event
                       /\ busWorkers'[w].to = me.to
                       /\ Len(busWorkers'[w].calls) = called
                  ELSE busWorkers'[w].pc = "idle"
               /\ \A v \in BusWorkerIds \ {w} : busWorkers'[v] = busWorkers[v]]_vars

\* after an event whose two consumers both failed, the worker has taken the
\* next event, its first consumer has panicked, and the second consumer is
\* being called with that event
C20_Witness ==
  \E w \in BusWorkerIds :
    /\ busWorkers[w].pc = "consumer"
    /\ Len(busWorkers[w].to) = 2
    /\ Len(busWorkers[w].calls) = 1
    /\ busWorkers[w].calls[1][2] = "panic"
    /\ bus.stats.ConsumerErrors = 3


\* a worker is inside a consumer's Process*Event call
InConsumerCall == \E w \in BusWorkerIds : busWorkers[w].pc = "consumer"

\* no step of a TryPublish* call waits for a consumer's call to end: the
\* call is made to wait by eb.mu alone, and only while a registering
\* goroutine holds it
PublishProceeds(g) ==
  /\ busCall[g].pc = "publish" /\ busMu \notin Goroutines => ENABLED PublishCheck(g)
  /\ busCall[g].pc = "send" => ENABLED PublishSend(g)

\* C21 as stated: while a worker is inside a consumer's call, eb.mu is not
\* held for that call and every TryPublish* call completes: it enqueues the
\* event, or, the channel being full, returns false and counts a drop.
C21_SlowConsumer ==
  /\ [](InConsumerCall =>
          /\ busMu \in Goroutines \cup {NoOwner}
          /\ \A g \in Publishers : PublishProceeds(g))
  /\ [][\A g \in Publishers : (InConsumerCall /\ PublishReturns(g)) =>
          \/ Accepted(g)
          \/ /\ ChannelFull(g)
             /\ ~busCall'[g].result
             /\ bus'.stats.EventsDropped = bus.stats.EventsDropped + 1
             /\ bus'.chan = bus.chan]_vars

\* C21 amended: while a worker is inside a consumer's call, eb.mu is not
\* held for that call and every TryPublish* call completes: it enqueues the
\* event, or suppresses it as a duplicate (TryPublish with deduplication:
\* true is returned, the suppressed-events counter goes up by one), or, the
\* channel being full, returns false and counts a drop.
C21_SlowConsumerAmended ==
  /\ [](InConsumerCall =>
          /\ busMu \in Goroutines \cup {NoOwner}
          /\ \A g \in Publishers : PublishProceeds(g))
  /\ [][\A g \in Publishers : (InConsumerCall /\ PublishReturns(g)) =>
          \/ /\ Accepted(g)
             /\ busCall'[g].result
          \/ /\ Duplicate(g)
             /\ busCall'[g].result
             /\ bus'.stats.EventsSuppressed = bus.stats.EventsSuppressed + 1
             /\ bus'.chan = bus.chan
          \/ /\ ChannelFull(g)
             /\ ~busCall'[g].result
             /\ bus'.stats.EventsDropped = bus.stats.EventsDropped + 1
             /\ bus'.chan = bus.chan]_vars

\* a worker took the first event and is still inside the first consumer's
\* call for it; meanwhile a second TryPublish* call was made and accepted
C21_Witness ==
  /\ \E w \in BusWorkerIds : busWorkers[w].pc = "consumer" /\ busWorkers[w].calls = <<>>
  /\ bus.stats.EventsProcessed + bus.stats.ConsumerErrors = 0
  /\ bus.stats.EventsReceived = 2
  /\ busCall["p1"].pc = "returned"
  /\ busCall["p1"].result


(***************************************************************************)
(* Command executor (execute.go).                                          *)
(***************************************************************************)
\* command paths: whether the string starts with a separator, and its
\* elements; the empty string has none
CommandPaths ==
  { [abs |-> FALSE, elems |-> <<>>],
    [abs |-> FALSE, elems |-> <<"notify.sh">>],
    [abs |-> FALSE, elems |-> <<".", "usr", "notify.sh">>],
    [abs |-> TRUE, elems |-> <<"usr", "notify.sh">>],
    [abs |-> TRUE, elems |-> <<"opt", "..", "usr", ".", "notify.sh">>],
    [abs |-> TRUE, elems |-> <<"usr", "notes.txt">>],
    [abs |-> TRUE, elems |-> <<"usr", "missing.sh">>],
    [abs |-> TRUE, elems |-> <<"root", "notify.sh">>],
    [abs |-> TRUE, elems |-> <<"usr">>] }

\* filepath.Clean on the elements from the i-th on: "." is dropped, ".."
\* removes the element before it, is dropped at the root and kept at the
\* start of a relative path
RECURSIVE CleanFrom(_, _, _, _)
CleanFrom(elems, i, abs, acc) ==
  IF i > Len(elems) THEN acc
  ELSE IF elems[i] = "." THEN CleanFrom(elems, i + 1, abs, acc)
  ELSE IF elems[i] = ".."
  THEN IF acc # <<>> /\ acc[Len(acc)] # ".."
       THEN CleanFrom(elems, i + 1, abs, SubSeq(acc, 1, Len(acc) - 1))
       ELSE IF abs THEN CleanFrom(elems, i + 1, abs, acc)
       ELSE CleanFrom(elems, i + 1, abs, Append(acc, ".."))
  ELSE CleanFrom(elems, i + 1, abs, Append(acc, elems[i]))

\* filepath.Clean; the empty relative result stands for "."
Clean(path) == [abs |-> path.abs, elems |-> CleanFrom(path.elems, 1, path.abs, <<>>)]

\* filepath.IsAbs
IsAbs(path) == path.abs

\* the files of the machine: kind and permission bits
Files ==
  [p \in { [abs |-> TRUE, elems |-> <<"usr">>],
           [abs |-> TRUE, elems |-> <<"usr", "notify.sh">>],
           [abs |-> TRUE, elems |-> <<"usr", "notes.txt">>],
           [abs |-> FALSE, elems |-> <<"notify.sh">>],
           [abs |-> FALSE, elems |-> <<"usr", "notify.sh">>] } |->
     IF p.elems = <<"usr">> THEN [dir |-> TRUE, owner |-> 7, group |-> 5, other |-> 5]
     ELSE IF p.elems[Len(p.elems)] = "notes.txt"
     THEN [dir |-> FALSE, owner |-> 6, group |-> 4, other |-> 4]
     ELSE [dir |-> FALSE, owner |-> 7, group |-> 5, other |-> 5]]

\* directories the process may not search
Unreadable == {<<"root">>}

\* os.Stat: the error, or the file's mode; on Windows Go reports no
\* execute bits for files
Stat(goos, path) ==
  IF path.abs /\ path.elems # <<>> /\ <<path.elems[1]>> \in Unreadable
  THEN [err |-> "permission_denied"]
  ELSE IF path \notin DOMAIN Files THEN [err |-> "file_not_found"]
  ELSE IF goos = "windows" /\ ~Files[path].dir
  THEN [err |-> "nil", mode |-> [dir |-> FALSE, owner |-> 6, group |-> 6, other |-> 6]]
  ELSE [err |-> "nil", mode |-> Files[path]]

\* info.Mode()&0o111: the execute bits of the mode
ExecuteBits(mode) == (mode.owner % 2) + (mode.group % 2) + (mode.other % 2)

\* validateCommandPath: the cleaned path, or the error
validateCommandPath(goos, command) ==
  LET cleaned == Clean(command)
      info == Stat(goos, cleaned)
  IN IF ~IsAbs(cleaned)
     THEN [err |-> "command must use absolute path", category |-> "validation"]
     ELSE IF info.err # "nil"
     THEN [err |-> info.err, category |-> "file-io"]
     ELSE IF goos # "windows" /\ ExecuteBits(info.mode) = 0
     THEN [err |-> "command is not executable", category |-> "validation"]
     ELSE [err |-> "nil", path |-> cleaned]

\* parameter names, as sequences of code points: a-9_Z, the empty name,
\* and names with a character next to the allowed ranges
ParamNames ==
  { <<97, 45, 57, 95, 90>>, <<>>, <<122, 48, 65>>,
    <<97, 32, 98>>, <<97, 59>>, <<64, 97>>, <<90, 91>>, <<96>>,
    <<122, 123>>, <<48, 47>>, <<57, 58>> }

\* the mutant: parameter names are not checked
isValidParamNameAny(name) == TRUE

\* isValidParamName
isValidParamName(name) ==
  \A i \in DOMAIN name :
    ~( /\ (name[i] < 97 \/ name[i] > 122)
       /\ (name[i] < 65 \/ name[i] > 90)
       /\ (name[i] < 48 \/ name[i] > 57)
       /\ name[i] # 95
       /\ name[i] # 45 )

\* a < b in the order of slices.Sort on strings
RECURSIVE Before(_, _)
Before(a, b) ==
  IF a = <<>> THEN b # <<>>
  ELSE IF b = <<>> THEN FALSE
  ELSE IF Head(a) # Head(b) THEN Head(a) < Head(b)
  ELSE Before(Tail(a), Tail(b))

\* slices.Sort(keys)
RECURSIVE SortKeys(_)
SortKeys(keys) ==
  IF keys = {} THEN <<>>
  ELSE LET first == CHOOSE k \in keys : \A other \in keys \ {k} : Before(k, other)
       IN <<first>> \o SortKeys(keys \ {first})

\* buildSafeArguments from the i-th sorted key on: the "--key=value"
\* arguments (by their keys), or the error of the first invalid name
RECURSIVE buildSafeArgumentsFrom(_, _, _)
buildSafeArgumentsFrom(keys, i, args) ==
  IF i > Len(keys) THEN [err |-> "nil", args |-> args]
  ELSE IF ~isValidParamName(keys[i])
  THEN [err |-> "invalid parameter name", category |-> "validation"]
  ELSE buildSafeArgumentsFrom(keys, i + 1, Append(args, keys[i]))

buildSafeArguments(params) == buildSafeArgumentsFrom(SortKeys(params), 1, <<>>)

\* getCleanEnvironment: the names of the child's environment variables
getCleanEnvironment(goos) ==
  IF goos = "windows" THEN {"PATH", "TEMP", "TMP", "SystemRoot"} ELSE {"PATH", "TEMP", "TMP"}

\* the types of the data handed to Execute
DataTypes == {"Detections", "Note"}

\* the sets of parameter names of the explored actions
ParamSets == {ps \in SUBSET ParamNames : Cardinality(ps) <= MaxParams}

InitEX ==
  /\ exHost \in [goos : {"linux", "windows"}]
  /\ exCall \in [pc : {"called"}, Command : CommandPaths, Params : ParamSets, data : DataTypes]
  /\ exSpawned = <<>>
  /\ ETParked
  /\ DAParked
  /\ JQParked
  /\ CAParked
  /\ PLParked
  /\ SSParked
  /\ APParked
  /\ RTParked
  /\ CBParked
  /\ EBParked

\* ExecuteContext up to exec.CommandContext: the type assertion,
\* validateCommandPath, buildSafeArguments; an error of a validation is
\* returned under the category the builder of ExecuteContext gives it
ExecuteContext ==
  /\ exCall.pc = "called"
  /\ LET validated == validateCommandPath(exHost.goos, exCall.Command)
         built == buildSafeArguments(exCall.Params)
     IN exCall' =
          IF exCall.data # "Detections"
          THEN [exCall EXCEPT !.pc = "returned"] @@
               [err |-> "requires Detections type", category |-> "validation"]
          ELSE IF validated.err # "nil"
          THEN [exCall EXCEPT !.pc = "returned"] @@
               [err |-> validated.err, category |-> "validation"]
          ELSE IF built.err # "nil"
          THEN [exCall EXCEPT !.pc = "returned"] @@
               [err |-> built.err, category |-> "validation"]
          ELSE [exCall EXCEPT !.pc = "command"] @@
               [cmdPath |-> validated.path, args |-> built.args]
  /\ UNCHANGED <<exHost, exSpawned>>
  /\ UNCHANGED notEX

\* cmd.CombinedOutput starts the child under the clean environment, or
\* fails to start it (a directory is never started)
CommandStart(started) ==
  /\ exCall.pc = "command"
  /\ started => ~Stat(exHost.goos, exCall.cmdPath).mode.dir
  /\ IF started
     THEN /\ exSpawned' = Append(exSpawned,
               [path |-> exCall.cmdPath, args |-> exCall.args,
                env |-> getCleanEnvironment(exHost.goos)])
          /\ exCall' = [exCall EXCEPT !.pc = "running"]
     ELSE /\ exCall' = [exCall EXCEPT !.pc = "returned"] @@
               [err |-> "start failed", category |-> "command-execution"]
          /\ UNCHANGED exSpawned
  /\ UNCHANGED exHost
  /\ UNCHANGED notEX

\* the child exits, or the timeout of the command's context kills it
CommandExit(status) ==
  /\ exCall.pc = "running"
  /\ exCall' = [exCall EXCEPT !.pc = "returned"] @@
       (IF status = "exit 0" THEN [err |-> "nil", category |-> "none"]
        ELSE [err |-> status, category |-> "command-execution"])
  /\ UNCHANGED <<exHost, exSpawned>>
  /\ UNCHANGED notEX

NextEX ==
  \/ ExecuteContext
  \/ \E started \in BOOLEAN : CommandStart(started)
  \/ \E status \in {"exit 0", "exit 1", "killed"} : CommandExit(status)

SpecEX == InitEX /\ [][NextEX]_vars

\* the characters [A-Za-z0-9_-]
SafeCharacters == (97..122) \cup (65..90) \cup (48..57) \cup {95, 45}

\* the call's inputs pass every validation: the data are Detections, the
\* cleaned command path is absolute, names an existing file with an execute
\* bit (where the platform has execute bits), and every parameter name is
\* made of safe characters
ValidInputs ==
  LET cleaned == Clean(exCall.Command)
  IN /\ exCall.data = "Detections"
     /\ exCall.Command.abs
     /\ exCall.Command.elems # <<>>
     /\ cleaned \in DOMAIN Files
     /\ cleaned.elems[1] # "root"
     /\ exHost.goos # "windows" =>
          (Files[cleaned].owner \in {1, 3, 5, 7} \/ Files[cleaned].group \in {1, 3, 5, 7}
             \/ Files[cleaned].other \in {1, 3, 5, 7})
     /\ \A name \in exCall.Params : \A i \in DOMAIN name : name[i] \in SafeCharacters

ActionConfigs ==
  [Type : {"ExecuteCommand", "SendNotification"}, Parameters : {0, 1},
   ExecuteDefaults : BOOLEAN]

\* Actions lists of n entries
ActionConfigLists(n) == [1..n -> ActionConfigs]

\* Settings.Realtime.Species.Config as the configuration file spells its
\* keys: no entry for the robin, an entry under "robin", an entry under
\* "Robin", or both
SpeciesConfigChoices ==
  LET Entry(threshold, actions) ==
        [Threshold |-> threshold, Interval |-> 0, Actions |-> actions]
      Lists == UNION {ActionConfigLists(n) : n \in 0..MaxActionConfigs}
  IN {EmptyMap}
       \cup {[x \in {"robin"} |-> Entry(700, actions)] : actions \in Lists}
       \cup {[x \in {"Robin"} |-> Entry(700, actions)] : actions \in Lists}
       \cup {[x \in {"robin", "Robin"} |->
                IF x = "robin" THEN Entry(700, actions) ELSE Entry(300, <<>>)] : actions \in Lists}

\* the configurations explored for the lookups
LookupSettings ==
  { [PrivacyFilter |-> FALSE, DogBarkFilter |-> FALSE, DynamicThreshold |-> FALSE,
     Overlap |-> 0, SpeciesConfig |-> config,
     Log |-> log, Database |-> TRUE, Birdweather |-> FALSE, MQTT |-> FALSE,
     SSE |-> log, RangeFilterStale |-> FALSE] :
    config \in SpeciesConfigChoices, log \in BOOLEAN }

InitAP ==
  /\ Settings \in LookupSettings
  /\ DAQuiet
  /\ lookup = [pc |-> "idle"]
  /\ ETParked
  /\ JQParked
  /\ CAParked
  /\ PLParked
  /\ SSParked
  /\ RTParked
  /\ CBParked
  /\ EBParked
  /\ EXParked

\* the planner resolves the actions of a confirmed detection
PlanActions(commonName) ==
  /\ lookup' = [pc |-> "getActionsForItem", species |-> commonName,
                result |-> getActionsForItem(NewWithSpeciesInfo(0, commonName, 900, "A"))]
  /\ UNCHANGED notAP

\* processResults looks up the base threshold of a classifier result
LookupThreshold(species) ==
  /\ lookup' = [pc |-> "getBaseConfidenceThreshold", species |-> species,
                result |-> getBaseConfidenceThreshold(ToLower(species))]
  /\ UNCHANGED notAP

NextAP ==
  \/ \E commonName \in Names : PlanActions(commonName)
  \/ \E species \in Names : LookupThreshold(species)

SpecAP == InitAP /\ [][NextAP]_vars

\* the entries of the species' Actions list, the species configured under
\* its lowercased name
ConfiguredActions(species) ==
  IF ToLower(species) \in DOMAIN Settings.SpeciesConfig
  THEN Settings.SpeciesConfig[ToLower(species)].Actions
  ELSE <<>>

\* C23: the planner returns the custom actions followed by the default
\* actions when the species has custom actions and one of them requests
\* execute-defaults, only the custom actions (no default action) when it
\* has custom actions and none requests execute-defaults, and the default
\* actions when it has no custom actions.
C23_PlannerResolution ==
  lookup.pc = "getActionsForItem" =>
    LET configured == ConfiguredActions(lookup.species)
        customs == customActionsFrom(configured, 1)
        anyDefaults == \E i \in DOMAIN configured : configured[i].ExecuteDefaults
    IN IF configured = <<>> THEN lookup.result = getDefaultActions
       ELSE IF anyDefaults THEN lookup.result = customs \o getDefaultActions
       ELSE lookup.result = customs

\* the result of getActionsForItem once the species' entry is found
ActionsOfEntry(entry) ==
  LET actions == customActionsFrom(entry.Actions, 1)
      executeDefaults == \E i \in DOMAIN entry.Actions : entry.Actions[i].ExecuteDefaults
  IN IF Len(actions) > 0 /\ ~executeDefaults THEN actions
     ELSE IF Len(actions) > 0 /\ executeDefaults THEN actions \o getDefaultActions
     ELSE getDefaultActions

\* C25: when the configuration has one entry for the species, under whatever
\* letter case the key is written, the threshold lookup returns the entry's
\* threshold and the action lookup returns the entry's actions, whatever the
\* letter case of the name the classifier reports.
C25_CaseInsensitiveLookup ==
  LET config == Settings.SpeciesConfig
      matches == {k \in DOMAIN config : SameSpecies(k, lookup.species)}
  IN (lookup.pc # "idle" /\ Cardinality(matches) = 1)
       => LET entry == config[CHOOSE k \in matches : TRUE]
          IN /\ lookup.pc = "getBaseConfidenceThreshold"
                  => lookup.result = entry.Threshold
             /\ lookup.pc = "getActionsForItem"
                  => lookup.result = ActionsOfEntry(entry)

(***************************************************************************)
(* The settings store of the frontend: species configs through             *)
(* updateSection, saveSettings and loadSettings. Thresholds are in         *)
(* thousandths, intervals in seconds.                                      *)
(***************************************************************************)
\* the species whose configs the store holds
StoreSpecies == {"Bird A", "Bird B"}

\* thresholds a caller hands to the store: negative, zero, in range, one, above one
ThresholdInputs == {0 - 100, 0, 500, 1000, 1500}

\* intervals a caller hands to the store
IntervalInputs == {0 - 5, 0, 30}

\* the mutant: only the upper end of the threshold is clamped
coerceThresholdUpperOnly(threshold) == IF threshold > 1000 THEN 1000 ELSE threshold

\* threshold coerced to [0, 1]
coerceThreshold(threshold) ==
  IF threshold < 0 THEN 0 ELSE IF threshold > 1000 THEN 1000 ELSE threshold

\* interval coerced to >= 0
coerceInterval(interval) == IF interval < 0 THEN 0 ELSE interval

\* one species config coerced
coerceSpeciesConfig(config) ==
  [threshold |-> coerceThreshold(config.threshold),
   interval |-> coerceInterval(config.interval), actions |-> config.actions]

\* every entry of a species config map coerced
coerceSpeciesSettings(configs) ==
  [name \in DOMAIN configs |-> coerceSpeciesConfig(configs[name])]

\* the species config maps a backend holds: every value in range
StoredConfigs ==
  LET Entries == [threshold : {0, 500}, interval : {0, 30}, actions : {<<>>}]
  IN UNION {[D -> Entries] : D \in SUBSET StoreSpecies}

InitSS ==
  /\ settingsAPI \in StoredConfigs
  /\ settingsStore = [formData |-> EmptyMap]
  /\ ETParked
  /\ DAParked
  /\ JQParked
  /\ CAParked
  /\ PLParked
  /\ RTParked
  /\ CBParked
  /\ EBParked
  /\ EXParked
  /\ APParked

\* settingsActions.updateSection('realtime', {species: {config: {...current,
\* [name]: {threshold, interval, actions: []}}}})
UpdateSection(name, threshold, interval) ==
  /\ settingsStore' = [settingsStore EXCEPT !.formData =
       coerceSpeciesSettings(MapPut(settingsStore.formData, name,
         [threshold |-> threshold, interval |-> interval, actions |-> <<>>]))]
  /\ UNCHANGED settingsAPI
  /\ UNCHANGED notSS

\* settingsActions.saveSettings(): formData goes to settingsAPI.save
SaveSettings ==
  /\ settingsAPI' = coerceSpeciesSettings(settingsStore.formData)
  /\ UNCHANGED settingsStore
  /\ UNCHANGED notSS

\* settingsActions.loadSettings(): formData from settingsAPI.load
LoadSettings ==
  /\ settingsStore' = [formData |-> coerceSpeciesSettings(settingsAPI)]
  /\ UNCHANGED settingsAPI
  /\ UNCHANGED notSS

NextSS ==
  \/ \E name \in StoreSpecies, threshold \in ThresholdInputs, interval \in IntervalInputs :
       UpdateSection(name, threshold, interval)
  \/ SaveSettings
  \/ LoadSettings

SpecSS == InitSS /\ [][NextSS]_vars

\* a species config with every value in range
InRange(config) ==
  /\ 0 <= config.threshold /\ config.threshold <= 1000
  /\ config.interval >= 0

\* every stored entry is in range and coercing the stored map changes nothing
StoredCoerced ==
  /\ \A name \in DOMAIN settingsStore.formData : InRange(settingsStore.formData[name])
  /\ coerceSpeciesSettings(settingsStore.formData) = settingsStore.formData

\* C26: after an update the stored entry has the threshold given, moved into
\* [0, 1] (negative to 0, above 1 to 1), and the interval given, negative moved
\* to 0; values in range, zero among them, are stored as given; the other
\* species' entries are as before; coercing the stored map again changes
\* nothing; and what save sends and what load stores equals, value for value
\* and zero for zero, the map it was taken from.
C26_ZeroPreservation ==
  /\ []StoredCoerced
  /\ [][LET formData == settingsStore.formData
        IN /\ \A name \in StoreSpecies, t \in ThresholdInputs, i \in IntervalInputs :
                UpdateSection(name, t, i)
                  => LET stored == formData'[name]
                     IN /\ t < 0 => stored.threshold = 0
                        /\ t > 1000 => stored.threshold = 1000
                        /\ (0 <= t /\ t <= 1000) => stored.threshold = t
                        /\ i < 0 => stored.interval = 0
                        /\ i >= 0 => stored.interval = i
                        /\ DOMAIN formData' = DOMAIN formData \cup {name}
                        /\ \A other \in DOMAIN formData :
                             other # name => formData'[other] = formData[other]
           /\ SaveSettings => settingsAPI' = formData
           /\ LoadSettings => formData' = settingsAPI
      ]_vars

\* C26 witness: a zero threshold and a zero interval written by an update, a
\* clamped entry of a second species beside them, are what the backend holds
\* after a save
C26_Witness ==
  /\ "Bird A" \in DOMAIN settingsStore.formData
  /\ "Bird B" \in DOMAIN settingsStore.formData
  /\ settingsStore.formData["Bird A"].threshold = 0
  /\ settingsStore.formData["Bird A"].interval = 0
  /\ settingsStore.formData["Bird B"].threshold = 1000
  /\ settingsAPI = settingsStore.formData

(***************************************************************************)
(* The mutexes of the processor: processDetections (the detection          *)
(* processor goroutine) and pendingDetectionsFlusher (the flusher          *)
(* goroutine) step by step through their Lock and Unlock calls.            *)
(***************************************************************************)
Processor == "processor"
Flusher == "flusher"

\* the species of the result the detection processor handles
LockSpecies == {"Robin", "Dog", "Human vocal"}

\* the counts of the pending entry the flusher finds due
DueCounts == {1, 2}

\* sync.RWMutex: Lock is possible
RWFree(rw) == rw.writer = NoOwner /\ rw.readers = {}

\* sync.RWMutex: RLock is possible
RWReadable(rw) == rw.writer = NoOwner

InitPL ==
  /\ Settings \in SettingsChoices
  /\ DAQuiet
  /\ pendingMutex = NoOwner
  /\ detectionMutex = [writer |-> NoOwner, readers |-> {}]
  /\ lockCall = [g \in {Processor, Flusher} |-> [pc |-> "idle"]]
  /\ ETParked
  /\ JQParked
  /\ CAParked
  /\ RTParked
  /\ CBParked
  /\ EBParked
  /\ EXParked
  /\ APParked
  /\ SSParked

\* processResults reaches handleDogDetection / handleHumanDetection for a
\* result whose confidence is above the filter's
ProcessResult(species) ==
  /\ lockCall[Processor].pc = "idle"
  /\ LET speciesLowercase == ToLower(species)
         writes == \/ Settings.DogBarkFilter /\ ContainsDog(speciesLowercase)
                   \/ Settings.PrivacyFilter /\ ContainsHumanSpace(speciesLowercase)
     IN lockCall' = [lockCall EXCEPT ![Processor] =
          [pc |-> IF writes THEN "handle"
                  ELSE IF ContainsHuman(speciesLowercase) THEN "idle" ELSE "aggregate",
           species |-> speciesLowercase]]
  /\ UNCHANGED <<pendingMutex, detectionMutex>>
  /\ UNCHANGED <<daVars, notPL>>

\* handleDogDetection / handleHumanDetection: p.detectionMutex.Lock()
HandleDetectionLock ==
  /\ lockCall[Processor].pc = "handle"
  /\ RWFree(detectionMutex)
  /\ detectionMutex' = [detectionMutex EXCEPT !.writer = Processor]
  /\ lockCall' = [lockCall EXCEPT ![Processor].pc = "handle-locked"]
  /\ UNCHANGED pendingMutex
  /\ UNCHANGED <<daVars, notPL>>

\* the mutant: the write lock is kept when handleDogDetection or
\* handleHumanDetection returns
DetectionUnlockMissing(rw) == rw

\* p.detectionMutex.Unlock()
DetectionUnlock(rw) == [rw EXCEPT !.writer = NoOwner]

\* the map entry is written; p.detectionMutex.Unlock(); a human result is
\* discarded, another goes on to the aggregation
HandleDetectionUnlock ==
  /\ lockCall[Processor].pc = "handle-locked"
  /\ detectionMutex' = DetectionUnlock(detectionMutex)
  /\ lockCall' = [lockCall EXCEPT ![Processor].pc =
       IF ContainsHuman(lockCall[Processor].species) THEN "idle" ELSE "aggregate"]
  /\ UNCHANGED pendingMutex
  /\ UNCHANGED <<daVars, notPL>>

\* processDetections: p.pendingMutex.Lock()
AggregateLock ==
  /\ lockCall[Processor].pc = "aggregate"
  /\ pendingMutex = NoOwner
  /\ pendingMutex' = Processor
  /\ lockCall' = [lockCall EXCEPT ![Processor].pc = "pending-locked"]
  /\ UNCHANGED detectionMutex
  /\ UNCHANGED <<daVars, notPL>>

\* processDetections: the entry is updated or created; p.pendingMutex.Unlock()
AggregateUnlock ==
  /\ lockCall[Processor].pc = "pending-locked"
  /\ pendingMutex' = NoOwner
  /\ lockCall' = [lockCall EXCEPT ![Processor] = [pc |-> "idle"]]
  /\ UNCHANGED detectionMutex
  /\ UNCHANGED <<daVars, notPL>>

\* pendingDetectionsFlusher: a tick, p.pendingMutex.Lock(); an entry of the
\* map with the given count is due, or none is
FlusherLock(due, count) ==
  /\ lockCall[Flusher].pc = "idle"
  /\ pendingMutex = NoOwner
  /\ pendingMutex' = Flusher
  /\ lockCall' = [lockCall EXCEPT ![Flusher] =
       IF due THEN [pc |-> "item", Count |-> count] ELSE [pc |-> "unlock"]]
  /\ UNCHANGED detectionMutex
  /\ UNCHANGED <<daVars, notPL>>

\* shouldDiscardDetection: the count check, then the filter that is enabled
FlusherCheckCount ==
  /\ lockCall[Flusher].pc = "item"
  /\ lockCall' = [lockCall EXCEPT ![Flusher].pc =
       IF FalsePositive(lockCall[Flusher], minDetections) THEN "unlock"
       ELSE IF Settings.PrivacyFilter THEN "privacy"
       ELSE IF Settings.DogBarkFilter THEN "dog"
       ELSE "unlock"]
  /\ UNCHANGED <<pendingMutex, detectionMutex>>
  /\ UNCHANGED <<daVars, notPL>>

\* shouldDiscardDetection: p.detectionMutex.RLock() before the read of
\* LastHumanDetection or LastDogDetection
FlusherRLock ==
  /\ lockCall[Flusher].pc \in {"privacy", "dog"}
  /\ RWReadable(detectionMutex)
  /\ detectionMutex' = [detectionMutex EXCEPT !.readers = @ \cup {Flusher}]
  /\ lockCall' = [lockCall EXCEPT ![Flusher].pc =
       IF lockCall[Flusher].pc = "privacy" THEN "privacy-rlocked" ELSE "dog-rlocked"]
  /\ UNCHANGED pendingMutex
  /\ UNCHANGED <<daVars, notPL>>

\* shouldDiscardDetection: p.detectionMutex.RUnlock(); the filter discards the
\* entry or not
FlusherRUnlock(discard) ==
  /\ lockCall[Flusher].pc \in {"privacy-rlocked", "dog-rlocked"}
  /\ detectionMutex' = [detectionMutex EXCEPT !.readers = @ \ {Flusher}]
  /\ lockCall' = [lockCall EXCEPT ![Flusher].pc =
       IF ~discard /\ lockCall[Flusher].pc = "privacy-rlocked" /\ Settings.DogBarkFilter
       THEN "dog" ELSE "unlock"]
  /\ UNCHANGED pendingMutex
  /\ UNCHANGED <<daVars, notPL>>

\* pendingDetectionsFlusher: the entry is deleted (approved or discarded);
\* p.pendingMutex.Unlock()
FlusherUnlock ==
  /\ lockCall[Flusher].pc = "unlock"
  /\ pendingMutex' = NoOwner
  /\ lockCall' = [lockCall EXCEPT ![Flusher] = [pc |-> "idle"]]
  /\ UNCHANGED detectionMutex
  /\ UNCHANGED <<daVars, notPL>>

NextPL ==
  \/ \E species \in LockSpecies : ProcessResult(species)
  \/ HandleDetectionLock
  \/ HandleDetectionUnlock
  \/ AggregateLock
  \/ AggregateUnlock
  \/ \E due \in BOOLEAN, count \in DueCounts : FlusherLock(due, count)
  \/ FlusherCheckCount
  \/ FlusherRLock
  \/ \E discard \in BOOLEAN : FlusherRUnlock(discard)
  \/ FlusherUnlock

SpecPL == InitPL /\ [][NextPL]_vars

\* the steps of the detection processor after it took a result
ProcessorStep ==
  HandleDetectionLock \/ HandleDetectionUnlock \/ AggregateLock \/ AggregateUnlock

\* the steps of the flusher inside a tick
FlusherStep ==
  FlusherCheckCount \/ FlusherRLock \/ (\E discard \in BOOLEAN : FlusherRUnlock(discard))
    \/ FlusherUnlock

\* the goroutines run, and a goroutine that waits for a mutex gets it when
\* the mutex keeps becoming free (sync.Mutex and sync.RWMutex hand a lock to
\* a starving waiter)
SpecPLFair ==
  /\ SpecPL
  /\ WF_vars(HandleDetectionUnlock)
  /\ WF_vars(AggregateUnlock)
  /\ WF_vars(FlusherCheckCount)
  /\ WF_vars(\E discard \in BOOLEAN : FlusherRUnlock(discard))
  /\ WF_vars(FlusherUnlock)
  /\ SF_vars(HandleDetectionLock)
  /\ SF_vars(AggregateLock)
  /\ SF_vars(FlusherRLock)

\* C29: the goroutine that holds the pending-map lock holds no other lock of
\* the processor: it is neither the writer nor a reader of detectionMutex.
C29_PendingLockAlone ==
  \A g \in {Processor, Flusher} :
    pendingMutex = g
      => /\ detectionMutex.writer # g
         /\ g \notin detectionMutex.readers

\* goroutine g holds detectionMutex, as the writer or as a reader
HoldsDetection(g) == detectionMutex.writer = g \/ g \in detectionMutex.readers

\* Claim C39: the detection processor never holds the pending-map lock and
\* the detection lock together, and the flusher takes the detection lock only
\* while it holds the pending-map lock, so no two goroutines take the two locks
\* in opposite orders; a goroutine that cannot step has the other goroutine
\* able to step; a goroutine outside its call or tick holds no lock; and every
\* call and every tick comes to its end.
C39_DeadlockFreedom ==
  /\ [] ( /\ ~(pendingMutex = Processor /\ HoldsDetection(Processor))
          /\ HoldsDetection(Flusher) => pendingMutex = Flusher
          /\ (lockCall[Processor].pc = "aggregate" /\ pendingMutex # NoOwner)
               => ~HoldsDetection(Processor)
          /\ \A g \in {Processor, Flusher} :
               lockCall[g].pc = "idle" => (pendingMutex # g /\ ~HoldsDetection(g))
          /\ (lockCall[Processor].pc # "idle" /\ ~ENABLED ProcessorStep)
               => (lockCall[Flusher].pc # "idle" /\ ENABLED FlusherStep)
          /\ (lockCall[Flusher].pc # "idle" /\ ~ENABLED FlusherStep)
               => (lockCall[Processor].pc # "idle" /\ ENABLED ProcessorStep) )
  /\ \A g \in {Processor, Flusher} :
       (lockCall[g].pc # "idle") ~> (lockCall[g].pc = "idle")

\* C39 witness: the flusher holds the pending-map lock and waits for the
\* detection lock, which the detection processor holds as the writer
C39_Witness ==
  /\ pendingMutex = Flusher
  /\ lockCall[Flusher].pc \in {"privacy", "dog"}
  /\ detectionMutex.writer = Processor
  /\ lockCall[Processor].pc = "handle-locked"

====
